---- MODULE Spec2Model ----
(***************************************************************************)
(* SparkBot (src/sparkbot/core.py): the command registry, the parameter    *)
(* binder, the dispatcher and the help generator, as a state machine, and  *)
(* the webhook receiver (src/sparkbot/receiver.py) with its threads.       *)
(*                                                                         *)
(* Python strings that the code inspects character by character (message   *)
(* text, tokens, command names) are sequences of one-character strings.    *)
(* Texts that are only passed on (replies, error descriptions) are TLA+    *)
(* strings; Str flattens the first into the second.  The warning sign of   *)
(* the error prefix (U+26A0 U+FE0F) is written "(!)" and the backquote of  *)
(* the help texts is written "^".                                          *)
(***************************************************************************)
EXTENDS Integers, Sequences, FiniteSets, TLC

VARIABLES
    commands,                   \* self.commands: name -> handler
    fallback_command,           \* self.fallback_command, "None" when unset
    command_not_found_message,  \* self.command_not_found_message
    help_all_string,            \* self._help_all_string
    logger,                     \* whether self._logger is a Logger
    declared,                   \* handler -> names of its declared parameters
    last,                       \* the call in progress and what it did
    help_all_calls,             \* history: calls of my_help_all since the last
                                \* registration or removal (up to MaxHelpCalls)
    webhook_secret,             \* whether self.webhook_secret is set
    workers,                    \* the threads: where each is and what it holds
    sink,                       \* history: the messages created, in order
    http,                       \* the receiver's answer to the last request
    minargs_call                \* a call of commandhelpers.minargs

vars == <<commands, fallback_command, command_not_found_message,
          help_all_string, logger, declared, last, help_all_calls,
          webhook_secret, workers, sink, http, minargs_call>>

\* what the calls made from one thread of control leave alone
threadVars == <<webhook_secret, workers, sink, http, minargs_call>>

----------------------------------------------------------------------------
(* Bounds *)

\* longest lazy sequence a generator handler produces
MaxYield == 2

\* the history of my_help_all calls is counted up to this
MaxHelpCalls == 2

----------------------------------------------------------------------------
(* Characters and strings *)

RECURSIVE Str(_)
Str(cs) == IF cs = <<>> THEN "" ELSE cs[1] \o Str(Tail(cs))

\* code points of the characters the model uses (their relative order)
Ord(c) ==
    CASE c = " " -> 32 [] c = "\"" -> 34 [] c = "'" -> 39 [] c = "," -> 44
      [] c = "A" -> 65 [] c = "B" -> 66 [] c = "D" -> 68 [] c = "G" -> 71
      [] c = "I" -> 73 [] c = "L" -> 76 [] c = "N" -> 78 [] c = "P" -> 80
      [] c = "a" -> 97 [] c = "d" -> 100 [] c = "e" -> 101 [] c = "g" -> 103
      [] c = "h" -> 104 [] c = "i" -> 105 [] c = "l" -> 108 [] c = "n" -> 110
      [] c = "o" -> 111 [] c = "p" -> 112 [] c = "t" -> 116 [] c = "x" -> 120
      [] c = "LSQUO" -> 8216 [] c = "RSQUO" -> 8217
      [] c = "LDQUO" -> 8220 [] c = "RDQUO" -> 8221
      [] OTHER -> 0

\* str.lower on one character
LowerChar(c) ==
    CASE c = "A" -> "a" [] c = "B" -> "b" [] c = "D" -> "d" [] c = "G" -> "g"
      [] c = "I" -> "i" [] c = "L" -> "l" [] c = "N" -> "n" [] c = "P" -> "p"
      [] OTHER -> c

\* str.lower
Lower(cs) == [i \in 1..Len(cs) |-> LowerChar(cs[i])]

\* s < t for Python strings (lexicographic by code point)
RECURSIVE StrLess(_, _)
StrLess(s, t) ==
    IF t = <<>> THEN FALSE
    ELSE IF s = <<>> THEN TRUE
    ELSE IF s[1] = t[1] THEN StrLess(Tail(s), Tail(t))
    ELSE Ord(s[1]) < Ord(t[1])

\* the straight quote a "smart quote" is replaced by (core.py line 213)
StraightChar(c) ==
    CASE c = "LSQUO" -> "'" [] c = "RSQUO" -> "'"
      [] c = "LDQUO" -> "\"" [] c = "RDQUO" -> "\""
      [] OTHER -> c

StraightQuotes(cs) == [i \in 1..Len(cs) |-> StraightChar(cs[i])]

IsQuote(c) == c \in {"'", "\""}

\* shlex.split(text): whitespace separated tokens, quotes group and are
\* removed, an unclosed quote is a ValueError
RECURSIVE ShlexScan(_, _, _, _, _)
ShlexScan(cs, i, state, cur, acc) ==
    IF i > Len(cs)
    THEN IF IsQuote(state) THEN [ok |-> FALSE, tokens |-> <<>>]
         ELSE IF state = "word" THEN [ok |-> TRUE, tokens |-> Append(acc, cur)]
         ELSE [ok |-> TRUE, tokens |-> acc]
    ELSE LET c == cs[i] IN
         IF state = "none"
         THEN IF c = " " THEN ShlexScan(cs, i + 1, "none", <<>>, acc)
              ELSE IF IsQuote(c) THEN ShlexScan(cs, i + 1, c, <<>>, acc)
              ELSE ShlexScan(cs, i + 1, "word", <<c>>, acc)
         ELSE IF state = "word"
         THEN IF c = " " THEN ShlexScan(cs, i + 1, "none", <<>>, Append(acc, cur))
              ELSE IF IsQuote(c) THEN ShlexScan(cs, i + 1, c, cur, acc)
              ELSE ShlexScan(cs, i + 1, "word", Append(cur, c), acc)
         ELSE IF c = state THEN ShlexScan(cs, i + 1, "word", cur, acc)
              ELSE ShlexScan(cs, i + 1, state, Append(cur, c), acc)

ShlexSplit(cs) == ShlexScan(cs, 1, "none", <<>>, <<>>)

----------------------------------------------------------------------------
(* Words of the model's messages and command names *)

W_Bot  == <<"B", "o", "t">>
W_ping == <<"p", "i", "n", "g">>
W_PING == <<"P", "I", "N", "G">>
W_Ding == <<"D", "i", "n", "g">>
W_help == <<"h", "e", "l", "p">>
W_ALL  == <<"A", "L", "L">>
W_nope == <<"n", "o", "p", "e">>
Sp     == <<" ">>

\* self.me.displayName
MyName == W_Bot

----------------------------------------------------------------------------
(* Python values handed to and returned by handlers *)

\* every value has the same shape: tag, a text, a token list
VNone == [tag |-> "None", s |-> "", toks |-> <<>>]
VStr(s) == [tag |-> "str", s |-> s, toks |-> <<>>]
VList(toks) == [tag |-> "list", s |-> "", toks |-> toks]
VObj(name) == [tag |-> "object", s |-> name, toks |-> <<>>]
\* functools.partial(respond, room_id), core.py line 375
VPartial(room) == [tag |-> "partial", s |-> room, toks |-> <<>>]

IsStr(v) == v.tag = "str"
\* Python truthiness of a value ("not markdown", core.py line 356)
Truthy(v) == IF v.tag = "str" THEN v.s # ""
             ELSE IF v.tag = "list" THEN v.toks # <<>>
             ELSE v.tag # "None"

----------------------------------------------------------------------------
(* Handlers: the built-in help and the bot author's functions *)

MyHelp == "my_help"
UserHandlers == {"h1", "h2"}
Handlers == UserHandlers \cup {MyHelp}
None == "None"

\* h2 contains the yield keyword: calling it returns a generator
IsGeneratorFunction(h) == h = "h2"

\* the keywords command_dispatcher supplies, plus the one execute_command adds
Recognized == {"commandline", "event", "caller", "room_id", "callback"}
ParamNames == Recognized \cup {"bogus"}

\* the parameters of the handlers of the main specification: my_help(self,
\* commandline), a handler taking (commandline, room_id), a generator taking
\* (callback)
DeclaredDefault ==
    [h \in Handlers |->
        CASE h = MyHelp -> {"commandline"}
          [] h = "h1" -> {"commandline", "room_id"}
          [] OTHER -> {"callback"}]

\* __doc__ of a handler: lines as <<indentation, text>>, <<>> when there is no
\* docstring
Doc(h) ==
    CASE h = MyHelp -> << <<8, "The default help command.">>,
                          <<8, "Usage: ^help [command]^">> >>
      [] h = "h1" -> << <<4, "Replies pong.">>, <<6, "Usage: ^ping^">> >>
      [] OTHER -> <<>>

----------------------------------------------------------------------------
(* Arguments of SparkBot.command *)

NameStr(cs) == [isstr |-> TRUE, s |-> cs]
NameObj == [isstr |-> FALSE, s |-> <<>>]

ArgStr(cs) == [type |-> "str", s |-> cs, items |-> <<>>]
ArgList(items) == [type |-> "list", s |-> <<>>, items |-> items]
ArgFunction == [type |-> "function", s |-> <<>>, items |-> <<>>]
ArgObject == [type |-> "object", s |-> <<>>, items |-> <<>>]

\* the values of command_strings the model registers with
CommandStringsArgs ==
    { ArgStr(W_ping), ArgStr(W_help), ArgStr(<<>>),
      ArgList(<<>>),
      ArgList(<<NameStr(W_ping), NameStr(W_Ding)>>),
      ArgList(<<NameStr(W_Ding), NameObj, NameStr(W_ping)>>),
      ArgFunction, ArgObject }

\* the values of fallback: the two booleans and an object that is not a bool
FallbackArgs == {"True", "False", "object"}

\* ArgFalsy that takes every value of command_strings for a name
ArgFalsyNever(arg) == FALSE

\* "not command_strings"
ArgFalsy(arg) ==
    \/ arg.type = "str" /\ arg.s = <<>>
    \/ arg.type = "list" /\ arg.items = <<>>

FallbackTruthy(fb) == fb # "False"

\* the string names an argument mentions
NamesOf(arg) ==
    IF arg.type = "str" THEN {arg.s}
    ELSE {arg.items[i].s : i \in {j \in 1..Len(arg.items) : arg.items[j].isstr}}

\* names_to_register, core.py lines 167-170
NamesToRegister(arg) ==
    IF arg.type = "str" THEN <<NameStr(arg.s)>> ELSE arg.items

\* the loop of core.py lines 187-191 from position i on: binds each name in
\* turn and stops with TypeError at the first one that is not a str
RECURSIVE BindNames(_, _, _, _)
BindNames(cmds, names, i, h) ==
    IF i > Len(names) THEN [commands |-> cmds, raised |-> None]
    ELSE IF ~names[i].isstr THEN [commands |-> cmds, raised |-> "TypeError"]
    ELSE BindNames([n \in DOMAIN cmds \cup {names[i].s} |->
                        IF n = names[i].s THEN h ELSE cmds[n]],
                   names, i + 1, h)

\* Register without the check of core.py line 179: a later fallback replaces
\* the first
RegisterReplacesFallback(cmds, fbc, arg, fb, h) ==
    IF ArgFalsy(arg) /\ ~FallbackTruthy(fb)
    THEN [commands |-> cmds, fallback |-> fbc, raised |-> "CommandSetupError"]
    ELSE IF arg.type = "function"
    THEN [commands |-> cmds, fallback |-> fbc, raised |-> "CommandSetupError"]
    ELSE IF arg.type \notin {"str", "list"}
    THEN [commands |-> cmds, fallback |-> fbc, raised |-> "TypeError"]
    ELSE IF fb \notin {"True", "False"}
    THEN [commands |-> cmds, fallback |-> fbc, raised |-> "TypeError"]
    ELSE IF fb = "True"
    THEN [commands |-> cmds, fallback |-> h, raised |-> None]
    ELSE LET r == BindNames(cmds, NamesToRegister(arg), 1, h)
         IN  [commands |-> r.commands, fallback |-> fbc, raised |-> r.raised]

\* Register that also binds the names given along with fallback=True
RegisterFallbackBindsNames(cmds, fbc, arg, fb, h) ==
    IF ArgFalsy(arg) /\ ~FallbackTruthy(fb)
    THEN [commands |-> cmds, fallback |-> fbc, raised |-> "CommandSetupError"]
    ELSE IF arg.type = "function"
    THEN [commands |-> cmds, fallback |-> fbc, raised |-> "CommandSetupError"]
    ELSE IF arg.type \notin {"str", "list"}
    THEN [commands |-> cmds, fallback |-> fbc, raised |-> "TypeError"]
    ELSE IF fb \notin {"True", "False"}
    THEN [commands |-> cmds, fallback |-> fbc, raised |-> "TypeError"]
    ELSE IF fbc # None
    THEN [commands |-> cmds, fallback |-> fbc, raised |-> "CommandSetupError"]
    ELSE LET r == BindNames(cmds, NamesToRegister(arg), 1, h)
         IN  [commands |-> r.commands,
              fallback |-> IF fb = "True" /\ r.raised = None THEN h ELSE fbc,
              raised |-> r.raised]

\* SparkBot.command(command_strings, fallback)(function): the registry and
\* fallback afterwards and the exception raised
Register(cmds, fbc, arg, fb, h) ==
    IF ArgFalsy(arg) /\ ~FallbackTruthy(fb)
    THEN [commands |-> cmds, fallback |-> fbc, raised |-> "CommandSetupError"]
    ELSE IF arg.type = "function"
    THEN [commands |-> cmds, fallback |-> fbc, raised |-> "CommandSetupError"]
    ELSE IF arg.type \notin {"str", "list"}
    THEN [commands |-> cmds, fallback |-> fbc, raised |-> "TypeError"]
    ELSE IF fb \notin {"True", "False"}
    THEN [commands |-> cmds, fallback |-> fbc, raised |-> "TypeError"]
    ELSE IF fbc # None
    THEN [commands |-> cmds, fallback |-> fbc, raised |-> "CommandSetupError"]
    ELSE IF fb = "True"
    THEN [commands |-> cmds, fallback |-> h, raised |-> None]
    ELSE LET r == BindNames(cmds, NamesToRegister(arg), 1, h)
         IN  [commands |-> r.commands, fallback |-> fbc, raised |-> r.raised]

----------------------------------------------------------------------------
(* Help generator *)

RECURSIVE Spaces(_)
Spaces(n) == IF n <= 0 THEN "" ELSE " " \o Spaces(n - 1)

RECURSIVE MinIndent(_)
MinIndent(lines) ==
    IF Len(lines) = 1 THEN lines[1][1]
    ELSE LET m == MinIndent(Tail(lines))
         IN  IF lines[1][1] < m THEN lines[1][1] ELSE m

RECURSIVE JoinLines(_, _)
JoinLines(lines, sep) ==
    IF lines = <<>> THEN ""
    ELSE IF Len(lines) = 1 THEN lines[1]
    ELSE lines[1] \o sep \o JoinLines(Tail(lines), sep)

\* textwrap.dedent(doc): the common leading whitespace is removed
Dedent(doc) ==
    LET m == MinIndent(doc)
    IN  JoinLines([i \in 1..Len(doc) |-> Spaces(doc[i][1] - m) \o doc[i][2]], "\n")

\* sorted(): the strings of a set in ascending order
RECURSIVE Sorted(_)
Sorted(S) ==
    IF S = {} THEN <<>>
    ELSE LET m == CHOOSE x \in S : \A y \in S : y = x \/ StrLess(x, y)
         IN  <<m>> \o Sorted(S \ {m})

\* sep.join(strs) on character sequences
RECURSIVE Join(_, _)
Join(strs, sep) ==
    IF strs = <<>> THEN <<>>
    ELSE IF Len(strs) = 1 THEN strs[1]
    ELSE strs[1] \o sep \o Join(Tail(strs), sep)

HelpPreamble == "Type ^help [command]^ for more specific help about any of these commands:\n - "

\* core.py lines 420-445: one entry per handler, the names bound to it sorted
\* and joined by ", "; the entries sorted and joined by "\n - "
HelpAllText(cmds) ==
    LET hs == {cmds[n] : n \in DOMAIN cmds}
        entry(h) == Join(Sorted({n \in DOMAIN cmds : cmds[n] = h}), <<",", " ">>)
        entries == Sorted({entry(h) : h \in hs})
    IN  HelpPreamble \o JoinLines([i \in 1..Len(entries) |-> Str(entries[i])], "\n - ")

\* my_help_all that computes the text at every call and caches nothing
MyHelpAllUncached(cmds, cache) ==
    [text |-> HelpAllText(cmds), cache |-> ""]

\* my_help_all: the text returned and the cache afterwards (computed only
\* while the cached string is empty)
MyHelpAll(cmds, cache) ==
    IF cache = ""
    THEN [text |-> HelpAllText(cmds), cache |-> HelpAllText(cmds)]
    ELSE [text |-> cache, cache |-> cache]

\* my_help that takes only the lower-case word "all" for help-all
MyHelpCaseSensitive(cmds, cache, commandline) ==
    IF Len(commandline) < 2 THEN MyHelpAll(cmds, cache)
    ELSE IF commandline[2] = <<"a", "l", "l">> THEN MyHelpAll(cmds, cache)
    ELSE IF commandline[2] \notin DOMAIN cmds
    THEN [text |-> "I don't have a command with the name \"" \o Str(commandline[2]) \o "\".",
          cache |-> cache]
    ELSE IF Doc(cmds[commandline[2]]) = <<>>
    THEN [text |-> "There is no help available for ^" \o Str(commandline[2]) \o "^.",
          cache |-> cache]
    ELSE [text |-> Dedent(Doc(cmds[commandline[2]])), cache |-> cache]

\* my_help that returns the documentation as it is written, not dedented
MyHelpNotDedented(cmds, cache, commandline) ==
    IF Len(commandline) < 2 THEN MyHelpAll(cmds, cache)
    ELSE IF Lower(commandline[2]) = <<"a", "l", "l">> THEN MyHelpAll(cmds, cache)
    ELSE IF commandline[2] \notin DOMAIN cmds
    THEN [text |-> "I don't have a command with the name \"" \o Str(commandline[2]) \o "\".",
          cache |-> cache]
    ELSE IF Doc(cmds[commandline[2]]) = <<>>
    THEN [text |-> "There is no help available for ^" \o Str(commandline[2]) \o "^.",
          cache |-> cache]
    ELSE [text |-> JoinLines([i \in 1..Len(Doc(cmds[commandline[2]])) |->
                                Spaces(Doc(cmds[commandline[2]])[i][1])
                                \o Doc(cmds[commandline[2]])[i][2]], "\n"),
          cache |-> cache]

\* my_help(commandline): core.py lines 389-408
MyHelpCommand(cmds, cache, commandline) ==
    IF Len(commandline) < 2 THEN MyHelpAll(cmds, cache)
    ELSE IF Lower(commandline[2]) = <<"a", "l", "l">> THEN MyHelpAll(cmds, cache)
    ELSE IF commandline[2] \notin DOMAIN cmds
    THEN [text |-> "I don't have a command with the name \"" \o Str(commandline[2]) \o "\".",
          cache |-> cache]
    ELSE IF Doc(cmds[commandline[2]]) = <<>>
    THEN [text |-> "There is no help available for ^" \o Str(commandline[2]) \o "^.",
          cache |-> cache]
    ELSE [text |-> Dedent(Doc(cmds[commandline[2]])), cache |-> cache]

----------------------------------------------------------------------------
(* What a handler of the bot author does when it is called *)

Exc(type, args) == [type |-> type, args |-> args]
NoExc == Exc(None, <<>>)

\* a behaviour: the items a generator yields, then how the call (or the
\* generator) ends: by returning val or by raising ValueError(args)
Beh(kind, val, args, items) ==
    [kind |-> kind, val |-> val, args |-> args, items |-> items]
NoBeh == Beh("return", VNone, <<>>, <<>>)

RaiseArgs ==
    { <<>>, <<VStr("Whoops")>>, <<VStr("Whoops"), VStr("Hey, an exception")>>,
      <<VStr("Whoops"), VObj("5")>>, <<VObj("5")>> }

PlainBehaviours ==
    {Beh("return", v, <<>>, <<>>) : v \in {VStr("pong"), VStr(""), VNone}}
    \cup {Beh("raise", VNone, a, <<>>) : a \in RaiseArgs}

YieldItems == {VStr("Reply 1!"), VStr("Reply 2!"), VStr("")}

RECURSIVE SeqsUpTo(_, _)
SeqsUpTo(S, n) ==
    IF n = 0 THEN {<<>>}
    ELSE LET shorter == SeqsUpTo(S, n - 1)
         IN  shorter \cup {Append(q, x) : q \in {r \in shorter : Len(r) = n - 1}, x \in S}

GeneratorBehaviours ==
    {Beh("return", VNone, <<>>, its) : its \in SeqsUpTo(YieldItems, MaxYield)}
    \cup {Beh("raise", VNone, <<VStr("Whoops"), VStr("Hey, an exception")>>, its) :
            its \in SeqsUpTo(YieldItems, MaxYield)}

Behaviours(h) ==
    IF h \in UserHandlers
    THEN IF IsGeneratorFunction(h) THEN GeneratorBehaviours ELSE PlainBehaviours
    ELSE {NoBeh}

AllBehaviours == PlainBehaviours \cup GeneratorBehaviours \cup {NoBeh}

\* the behaviours that differ when only the call is made
CallBehaviours(h) ==
    IF h \in UserHandlers /\ IsGeneratorFunction(h)
    THEN {Beh("return", VNone, <<>>, <<VStr("Reply 1!")>>)}
    ELSE Behaviours(h)

----------------------------------------------------------------------------
(* execute_command *)

VGenerator == [tag |-> "generator", s |-> "", toks |-> <<>>]
NoArgs == [p \in {} |-> VNone]

\* Resolve with the fallback tried before the registry
ResolveFallbackFirst(command_str) ==
    IF fallback_command # None THEN fallback_command
    ELSE IF command_str \in DOMAIN commands THEN commands[command_str]
    ELSE None

\* Resolve that never uses the fallback
ResolveNoFallback(command_str) ==
    IF command_str \in DOMAIN commands THEN commands[command_str] ELSE None

\* core.py lines 315-320: the registry first, then the fallback, else nothing
Resolve(command_str) ==
    IF command_str \in DOMAIN commands THEN commands[command_str]
    ELSE IF fallback_command # None THEN fallback_command
    ELSE None

\* PossibleParameters that adds nothing for a declared parameter it lacks
PossibleParametersNoNone(h, kwargs) ==
    [p \in DOMAIN kwargs \cup {"callback"} |->
        IF p = "callback" THEN VNone ELSE kwargs[p]]

\* core.py lines 327-333: the declared parameters a configured logger is
\* warned about
Warned(h, kwargs) ==
    IF logger THEN declared[h] \ (DOMAIN kwargs \cup {"callback"}) ELSE {}

\* core.py lines 322-334: kwargs plus callback=None, plus, when a logger is
\* configured, None for every declared parameter that is not among them
PossibleParameters(h, kwargs) ==
    LET keys == DOMAIN kwargs \cup {"callback"}
                \cup (IF logger THEN declared[h] ELSE {})
    IN  [p \in keys |->
            IF p = "callback" THEN VNone
            ELSE IF p \in DOMAIN kwargs THEN kwargs[p]
            ELSE VNone]

\* ParametersToPass that passes every keyword available
ParametersToPassAll(h, kwargs) ==
    LET possible == PossibleParameters(h, kwargs)
    IN  [passed |-> [p \in DOMAIN possible |->
                       IF p = "callback" /\ "room_id" \in DOMAIN possible
                       THEN VPartial(possible["room_id"].s)
                       ELSE possible[p]],
         exc |-> NoExc]

\* core.py lines 336-343: the keywords passed to the handler; the callback is
\* built only when it is among them, from kwargs["room_id"]
ParametersToPass(h, kwargs) ==
    LET possible == PossibleParameters(h, kwargs)
        keys == DOMAIN possible \cap declared[h]
    IN  IF "callback" \in keys /\ "room_id" \notin DOMAIN possible
        THEN [passed |-> NoArgs,
              exc |-> Exc("KeyError", <<VStr("room_id")>>)]
        ELSE [passed |-> [p \in keys |->
                            IF p = "callback" THEN VPartial(possible["room_id"].s)
                            ELSE possible[p]],
              exc |-> NoExc]

\* what execute_command did: the handler it called, whether the handler's body
\* ran, the keywords it got, the value returned or the exception raised, the
\* generator's behaviour and the help cache afterwards
ExecResult(target, ran, passed, ret, exc, gen, cache) ==
    [target |-> target, ran |-> ran, passed |-> passed, ret |-> ret,
     exc |-> exc, gen |-> gen, cache |-> cache]

NoExec == ExecResult(None, FALSE, NoArgs, VNone, NoExc, NoBeh, "")

\* command_to_run(**parameters_to_pass), core.py line 345
CallHandler(h, passed, beh) ==
    IF DOMAIN passed # declared[h]
    THEN \* a required argument is missing, or a keyword is unexpected
         ExecResult(h, FALSE, passed, VNone,
                    Exc("TypeError", <<VStr("missing or unexpected argument")>>),
                    NoBeh, help_all_string)
    ELSE IF h = MyHelp
    THEN IF passed["commandline"].tag # "list"
         THEN ExecResult(h, TRUE, passed, VNone,
                         Exc("TypeError", <<VStr("object is not subscriptable")>>),
                         NoBeh, help_all_string)
         ELSE LET r == MyHelpCommand(commands, help_all_string,
                                     passed["commandline"].toks)
              IN  ExecResult(h, TRUE, passed, VStr(r.text), NoExc, NoBeh, r.cache)
    ELSE IF IsGeneratorFunction(h)
    THEN ExecResult(h, TRUE, passed, VGenerator, NoExc, beh, help_all_string)
    ELSE IF beh.kind = "raise"
    THEN ExecResult(h, TRUE, passed, VNone, Exc("ValueError", beh.args),
                    NoBeh, help_all_string)
    ELSE ExecResult(h, TRUE, passed, beh.val, NoExc, NoBeh, help_all_string)

\* execute_command(command_str, **kwargs)
ExecuteCommand(command_str, kwargs, beh) ==
    LET h == Resolve(command_str) IN
    IF h = None
    THEN ExecResult(None, FALSE, NoArgs, VNone,
                    Exc("CommandNotFound",
                        <<VStr("No command found"), VStr(command_not_found_message)>>),
                    NoBeh, help_all_string)
    ELSE LET b == ParametersToPass(h, kwargs) IN
         IF b.exc # NoExc
         THEN ExecResult(h, FALSE, NoArgs, VNone, b.exc, NoBeh, help_all_string)
         ELSE CallHandler(h, b.passed, beh)

----------------------------------------------------------------------------
(* send_message and command_dispatcher *)

Call(room, v) == [room |-> room, text |-> v]

BlankError == Exc("ValueError", <<VStr("response must be a non-blank string.")>>)

\* send_message(spark_room, markdown) with a room id: raises for a blank or
\* non-string markdown, else creates the message
SendMessage(room, v) ==
    IF ~Truthy(v) \/ ~IsStr(v)
    THEN [delivered |-> <<>>, exc |-> BlankError]
    ELSE [delivered |-> <<Call(room, v)>>, exc |-> NoExc]

\* what the sending part of command_dispatcher did: the calls of send_message,
\* the messages created, the number of generator items produced, the
\* exception that left it
Sent(calls, delivered, produced, exc) ==
    [calls |-> calls, delivered |-> delivered, produced |-> produced, exc |-> exc]

\* core.py lines 263-264 from item k on: each item is sent when it is
\* produced; an exception of send_message or of the generator ends the loop
RECURSIVE SendItems(_, _, _, _)
SendItems(room, gen, k, acc) ==
    IF k > Len(gen.items)
    THEN IF gen.kind = "raise"
         THEN Sent(acc.calls, acc.delivered, acc.produced, Exc("ValueError", gen.args))
         ELSE acc
    ELSE LET r == SendMessage(room, gen.items[k])
             now == Sent(Append(acc.calls, Call(room, gen.items[k])),
                         acc.delivered \o r.delivered, k, r.exc)
         IN  IF r.exc # NoExc THEN now ELSE SendItems(room, gen, k + 1, now)

\* SendResponse that sends a generator's items joined into one message
SendResponseJoined(room, final, gen) ==
    IF IsStr(final)
    THEN LET r == SendMessage(room, final)
         IN  Sent(<<Call(room, final)>>, r.delivered, 0, r.exc)
    ELSE IF final.tag = "generator"
    THEN LET all == VStr(JoinLines([i \in 1..Len(gen.items) |-> gen.items[i].s], "\n"))
             r == SendMessage(room, all)
         IN  Sent(<<Call(room, all)>>, r.delivered, Len(gen.items), r.exc)
    ELSE Sent(<<>>, <<>>, 0, NoExc)

\* SendResponse that does not call send_message for an empty string
SendResponseSkipsBlank(room, final, gen) ==
    IF IsStr(final) /\ final.s # ""
    THEN LET r == SendMessage(room, final)
         IN  Sent(<<Call(room, final)>>, r.delivered, 0, r.exc)
    ELSE IF final.tag = "generator"
    THEN SendItems(room, gen, 1, Sent(<<>>, <<>>, 0, NoExc))
    ELSE Sent(<<>>, <<>>, 0, NoExc)

\* core.py lines 260-264: a str is sent once, a generator item by item,
\* anything else is not sent
SendResponse(room, final, gen) ==
    IF IsStr(final)
    THEN LET r == SendMessage(room, final)
         IN  Sent(<<Call(room, final)>>, r.delivered, 0, r.exc)
    ELSE IF final.tag = "generator"
    THEN SendItems(room, gen, 1, Sent(<<>>, <<>>, 0, NoExc))
    ELSE Sent(<<>>, <<>>, 0, NoExc)

GenericDescription ==
    "Something happened internally. For more information, contact the bot author."

ErrorPrefix == "(!) Error:"

\* ErrorResponse that always gives the generic description
ErrorResponseGenericOnly(exc) ==
    [final |-> VStr(ErrorPrefix \o " " \o GenericDescription), exc |-> NoExc]

\* core.py lines 242-254: the except clause. The logging string is built from
\* error.args[0] when a logger is configured (lg); the description is
\* error.args[1], or the generic one when there is none
ErrorResponseWith(lg, exc) ==
    IF lg /\ Len(exc.args) = 0
    THEN [final |-> VNone, exc |-> Exc("IndexError", <<VStr("tuple index out of range")>>)]
    ELSE IF lg /\ ~IsStr(exc.args[1])
    THEN [final |-> VNone, exc |-> Exc("TypeError", <<VStr("sequence item: expected str instance")>>)]
    ELSE LET desc == IF Len(exc.args) >= 2 THEN exc.args[2]
                     ELSE VStr(GenericDescription)
         IN  IF ~IsStr(desc)
             THEN [final |-> VNone,
                   exc |-> Exc("TypeError", <<VStr("sequence item: expected str instance")>>)]
             ELSE [final |-> VStr(ErrorPrefix \o " " \o desc.s), exc |-> NoExc]

\* the except clause of this bot, whose logger is configured or not
ErrorResponse(exc) == ErrorResponseWith(logger, exc)

FormatError ==
    "(!)Error: Please check the format of your command. No closing quotation"

\* a user_request: the event, with the message and the person the API
\* returns for it
Request(room, text) == [roomId |-> room, text |-> text, person |-> "alice@example.com"]

VEvent(req) == [tag |-> "WebhookEvent", s |-> req.roomId, toks |-> <<req.text>>]
VPerson(req) == [tag |-> "Person", s |-> req.person, toks |-> <<>>]

\* the keywords of core.py lines 237-241
DispatchContext(req, commandline) ==
    [p \in {"commandline", "event", "caller", "room_id"} |->
        CASE p = "commandline" -> VList(commandline)
          [] p = "event" -> VEvent(req)
          [] p = "caller" -> VPerson(req)
          [] OTHER -> VStr(req.roomId)]

\* what command_dispatcher did
Dispatched(commandline, command_str, exec, sent) ==
    [commandline |-> commandline, command_str |-> command_str, exec |-> exec,
     calls |-> sent.calls, delivered |-> sent.delivered,
     produced |-> sent.produced, exc |-> sent.exc]

IndexError == Exc("IndexError", <<VStr("list index out of range")>>)

\* StripMyName that leaves the tokens as they are
StripMyNameNever(tokens) == tokens

\* core.py lines 228-231: my name is removed from the front of the tokens
StripMyName(tokens) ==
    IF tokens[1] = MyName THEN Tail(tokens) ELSE tokens

\* core.py lines 242-264: the reply to what execute_command did; e is what
\* the except clause made of its exception
Respond(room, exec, e) ==
    IF exec.exc = NoExc THEN SendResponse(room, exec.ret, exec.gen)
    ELSE IF e.exc # NoExc THEN Sent(<<>>, <<>>, 0, e.exc)
    ELSE SendResponse(room, e.final, NoBeh)

\* core.py lines 236-264, with the result of execute_command
DispatchCommand(req, commandline, command_str, exec) ==
    Dispatched(commandline, command_str, exec,
               Respond(req.roomId, exec, ErrorResponse(exec.exc)))

\* core.py lines 233-264, with the tokens left after my name is removed
DispatchTokens(req, beh, commandline) ==
    IF commandline = <<>>
    THEN Dispatched(commandline, <<>>, NoExec, Sent(<<>>, <<>>, 0, IndexError))
    ELSE DispatchCommand(req, commandline, Lower(commandline[1]),
                         ExecuteCommand(Lower(commandline[1]),
                                        DispatchContext(req, commandline), beh))

\* DispatchSplit that returns without a reply when shlex.split fails
DispatchSplitSilent(req, beh, split) ==
    IF ~split.ok \/ split.tokens = <<>>
    THEN Dispatched(<<>>, <<>>, NoExec, Sent(<<>>, <<>>, 0, NoExc))
    ELSE DispatchTokens(req, beh, StripMyName(split.tokens))

\* core.py lines 216-264, with the result of shlex.split
DispatchSplit(req, beh, split) ==
    IF ~split.ok
    THEN Dispatched(<<>>, <<>>, NoExec,
                    SendResponse(req.roomId, VStr(FormatError), NoBeh))
    ELSE IF split.tokens = <<>>
    THEN Dispatched(<<>>, <<>>, NoExec, Sent(<<>>, <<>>, 0, IndexError))
    ELSE DispatchTokens(req, beh, StripMyName(split.tokens))

\* command_dispatcher(user_request), core.py lines 208-264
CommandDispatcher(req, beh) ==
    DispatchSplit(req, beh, ShlexSplit(StraightQuotes(req.text)))

----------------------------------------------------------------------------
(* The state machine *)

NotFoundLong == "Command not found. Maybe try 'help'?"
NotFoundShort == "Command not found."

Rooms == {"room1", "room2"}

\* the message texts the model dispatches
Texts ==
    { <<>>,                                  \* an empty message
      W_Bot,                                 \* only the bot's name
      W_Bot \o Sp \o W_ping,
      W_PING \o Sp \o <<"x">>,
      W_Bot \o Sp \o W_Ding,
      W_Bot \o Sp \o W_Bot \o Sp \o W_ping,  \* the bot's name twice
      W_Bot \o Sp \o W_help \o Sp \o W_ping,
      W_help \o Sp \o W_nope,
      W_nope,
      W_ping \o Sp \o <<"LSQUO", "x">> }     \* an unclosed (smart) quote

\* the messages that ask for the list of all commands
HelpAllTexts == {W_help, W_help \o Sp \o W_ALL}

\* the command names execute_command is called with directly
CommandStrs == {W_ping, W_Ding, W_help, W_nope}

FullContext ==
    DispatchContext(Request("room1", W_help \o Sp \o W_ping), <<W_help, W_ping>>)

\* the keyword sets execute_command is called with directly: the dispatcher's
\* four, and room_id alone
ExecContexts == {FullContext, [p \in {"room_id"} |-> FullContext[p]]}

\* any part of the dispatcher's four keywords, and the four with one more
AllExecContexts ==
    {[p \in K |-> FullContext[p]] : K \in SUBSET DOMAIN FullContext}
    \cup {[p \in DOMAIN FullContext \cup {"extra"} |->
             IF p = "extra" THEN VObj("extra") ELSE FullContext[p]]}

NoRequest == Request("", <<>>)
NoDispatch == Dispatched(<<>>, <<>>, NoExec, Sent(<<>>, <<>>, 0, NoExc))

\* the threads that can run at the same time
Workers == {"w1", "w2"}

\* a thread: the step it is at, the method it runs, the request it was
\* started with, what the handler does, what execute_command did,
\* finalresponse, the items the generator has produced, the calls of
\* send_message and of the callback made so far, my_help_all's local output
\* and return value, the exception that ended the thread
Worker(pc, target, req, beh, exec, final, produced, calls, said, output, ret, exc) ==
    [pc |-> pc, target |-> target, req |-> req, beh |-> beh, exec |-> exec,
     final |-> final, produced |-> produced, calls |-> calls, said |-> said,
     output |-> output, ret |-> ret, exc |-> exc]

NoWorker ==
    Worker("idle", None, NoRequest, NoBeh, NoExec, VNone, 0, 0, 0, "", "", NoExc)

\* an HTTP response: the status, the body, and whether a thread was started
Response(status, body, started) ==
    [status |-> status, body |-> body, started |-> started]
NoResponse == Response(0, "", FALSE)

\* a POST to /sparkbot: the body (none, a webhook event as JSON, or bytes
\* that are not JSON), the X-Spark-Signature header (missing, the HMAC of
\* the body under the bot's secret, or something else), and for an event its
\* actor and the room and text of its message
Post(body, signature, actor, room, text) ==
    [body |-> body, signature |-> signature, actor |-> actor,
     room |-> room, text |-> text]
NoPost == Post("none", "missing", "other", "", <<>>)

\* minargs(numargs, commandline): the arguments, whether the call was made
\* and what it returned
MinargsCall(numargs, commandline, done, result) ==
    [numargs |-> numargs, commandline |-> commandline, done |-> done,
     result |-> result]
NoMinargsCall == MinargsCall(0, <<>>, FALSE, FALSE)

\* a bot whose receiver has not been asked anything and that runs no thread
NoThreads ==
    /\ minargs_call = NoMinargsCall
    /\ webhook_secret = FALSE
    /\ workers = [w \in Workers |-> NoWorker]
    /\ sink = <<>>
    /\ http = [status |-> 0, body |-> "", started |-> FALSE, post |-> NoPost]

\* the call in progress: the operation, its arguments (those of command; the
\* request, or the keywords of a direct execute_command; what the handler
\* does when called), the exception that left it and what it did
LastOf(op, arg, fb, func, raised, req, ctx, beh, d) ==
    [op |-> op, arg |-> arg, fb |-> fb, func |-> func, raised |-> raised,
     req |-> req, ctx |-> ctx, beh |-> beh, d |-> d]

Idle ==
    LastOf("idle", ArgObject, "False", None, None, NoRequest, NoArgs, NoBeh, NoDispatch)

Init ==
    /\ commands = [n \in {W_help} |-> MyHelp]
    /\ fallback_command = None
    /\ command_not_found_message = NotFoundLong
    /\ help_all_string = ""
    /\ logger \in BOOLEAN
    /\ declared = DeclaredDefault
    /\ last = Idle
    /\ help_all_calls = 0
    /\ NoThreads

\* @bot.command(arg, fallback=fb) applied to function h
Command(arg, fb, h) ==
    /\ last.op = "idle"
    /\ LET r == Register(commands, fallback_command, arg, fb, h) IN
       /\ commands' = r.commands
       /\ fallback_command' = r.fallback
       /\ last' = LastOf("command", arg, fb, h, r.raised, NoRequest, NoArgs,
                         NoBeh, NoDispatch)
    /\ help_all_calls' = 0
    /\ UNCHANGED threadVars
    /\ UNCHANGED <<command_not_found_message, help_all_string, logger, declared>>

\* remove_help that leaves the not-found message as it is
RemoveHelpKeepsMessage ==
    /\ last.op = "idle"
    /\ commands' = [n \in DOMAIN commands \ {W_help} |-> commands[n]]
    /\ last' = LastOf("remove_help", ArgObject, "False", None, None,
                      NoRequest, NoArgs, NoBeh, NoDispatch)
    /\ help_all_calls' = 0
    /\ UNCHANGED threadVars
    /\ UNCHANGED <<fallback_command, command_not_found_message, help_all_string,
                   logger, declared>>

\* remove_help that removes only the built-in help
RemoveBuiltinHelpOnly ==
    /\ last.op = "idle"
    /\ command_not_found_message' = NotFoundShort
    /\ commands' = [n \in {m \in DOMAIN commands : m # W_help \/ commands[m] # MyHelp}
                       |-> commands[n]]
    /\ last' = LastOf("remove_help", ArgObject, "False", None, None,
                      NoRequest, NoArgs, NoBeh, NoDispatch)
    /\ help_all_calls' = 0
    /\ UNCHANGED threadVars
    /\ UNCHANGED <<fallback_command, help_all_string, logger, declared>>

\* bot.remove_help(), core.py lines 272-273
RemoveHelp ==
    /\ last.op = "idle"
    /\ command_not_found_message' = NotFoundShort
    /\ commands' = [n \in DOMAIN commands \ {W_help} |-> commands[n]]
    /\ last' = LastOf("remove_help", ArgObject, "False", None, None,
                      NoRequest, NoArgs, NoBeh, NoDispatch)
    /\ help_all_calls' = 0
    /\ UNCHANGED threadVars
    /\ UNCHANGED <<fallback_command, help_all_string, logger, declared>>

\* my_help_all ran in this call of execute_command: my_help was called
\* without a second token or with "all" (core.py lines 389-396), or
\* my_help_all was called directly
RanHelpAll(exec) ==
    /\ exec.target = MyHelp
    /\ exec.ran
    /\ exec.exc = NoExc
    /\ \/ "commandline" \notin DOMAIN exec.passed
       \/ Len(exec.passed["commandline"].toks) < 2
       \/ Lower(exec.passed["commandline"].toks[2]) = <<"a", "l", "l">>

\* the history of my_help_all calls after a call of execute_command
CallsAfter(exec) ==
    IF ~RanHelpAll(exec) THEN help_all_calls
    ELSE IF help_all_calls < MaxHelpCalls THEN help_all_calls + 1
    ELSE MaxHelpCalls

\* the help cache after a dispatch: execute_command's, when it was reached
CacheAfter(d) == IF d.exec = NoExec THEN help_all_string ELSE d.exec.cache

\* what a dispatch leaves behind: d is what command_dispatcher did when the
\* handler it called behaved as beh
DispatchDone(req, beh, d) ==
    /\ beh \in Behaviours(d.exec.target)
    /\ help_all_string' = CacheAfter(d)
    /\ help_all_calls' = CallsAfter(d.exec)
    /\ last' = LastOf("dispatch", ArgObject, "False", None, d.exc.type,
                      req, NoArgs, beh, d)

\* Dispatch that also shortens the not-found message
DispatchShortensNotFound(room, text) ==
    /\ last.op = "idle"
    /\ \E beh \in AllBehaviours :
          DispatchDone(Request(room, text), beh,
                       CommandDispatcher(Request(room, text), beh))
    /\ command_not_found_message' = NotFoundShort
    /\ UNCHANGED threadVars
    /\ UNCHANGED <<commands, fallback_command, logger, declared>>

\* bot.command_dispatcher(user_request) for a message in a room; beh is what
\* the handler that gets called does
Dispatch(room, text) ==
    /\ last.op = "idle"
    /\ \E beh \in AllBehaviours :
          DispatchDone(Request(room, text), beh,
                       CommandDispatcher(Request(room, text), beh))
    /\ UNCHANGED threadVars
    /\ UNCHANGED <<commands, fallback_command, command_not_found_message,
                   logger, declared>>

\* bot.execute_command(command_str, **ctx), called directly; a generator it
\* returns is not iterated
Execute(command_str, ctx) ==
    /\ last.op = "idle"
    /\ \E beh \in CallBehaviours(Resolve(command_str)) :
          LET exec == ExecuteCommand(command_str, ctx, beh)
              d == Dispatched(<<>>, command_str, exec, Sent(<<>>, <<>>, 0, exec.exc))
          IN  /\ help_all_string' = exec.cache
              /\ help_all_calls' = CallsAfter(exec)
              /\ last' = LastOf("execute", ArgObject, "False", None, exec.exc.type,
                                NoRequest, ctx, beh, d)
    /\ UNCHANGED threadVars
    /\ UNCHANGED <<commands, fallback_command, command_not_found_message,
                   logger, declared>>

\* the call returns (or its exception reaches the caller); what it worked on
\* is discarded
Return ==
    /\ last.op # "idle"
    /\ last' = Idle
    /\ UNCHANGED threadVars
    /\ UNCHANGED <<commands, fallback_command, command_not_found_message,
                   help_all_string, logger, declared, help_all_calls>>

Next ==
    \/ \E arg \in CommandStringsArgs, fb \in FallbackArgs, h \in UserHandlers :
          Command(arg, fb, h)
    \/ RemoveHelp
    \/ \E room \in Rooms, text \in Texts : Dispatch(room, text)
    \/ \E command_str \in CommandStrs, ctx \in ExecContexts : Execute(command_str, ctx)
    \/ Return

Spec == Init /\ [][Next]_vars

\* The binder on its own: handler h1 written with any set of parameter names,
\* registered as "ping" and called directly with any part of the dispatcher's
\* keywords, or through the dispatcher
InitBind ==
    /\ commands = [n \in {W_help} |-> MyHelp]
    /\ fallback_command = None
    /\ command_not_found_message = NotFoundLong
    /\ help_all_string = ""
    /\ logger \in BOOLEAN
    /\ declared \in {[h \in Handlers |-> IF h = "h1" THEN S ELSE DeclaredDefault[h]] :
                       S \in SUBSET ParamNames}
    /\ last = Idle
    /\ help_all_calls = 0
    /\ NoThreads

NextBind ==
    \/ Command(ArgStr(W_ping), "False", "h1")
    \/ \E ctx \in AllExecContexts : Execute(W_ping, ctx)
    \/ \E room \in Rooms : Dispatch(room, W_Bot \o Sp \o W_ping)
    \/ Return

SpecBind == InitBind /\ [][NextBind]_vars

\* bot.my_help_all(), called directly
HelpAll ==
    /\ last.op = "idle"
    /\ LET r == MyHelpAll(commands, help_all_string)
           exec == ExecResult(MyHelp, TRUE, NoArgs, VStr(r.text), NoExc, NoBeh, r.cache)
       IN  /\ help_all_string' = r.cache
           /\ help_all_calls' = CallsAfter(exec)
           /\ last' = LastOf("help_all", ArgObject, "False", None, None, NoRequest,
                             NoArgs, NoBeh,
                             Dispatched(<<>>, <<>>, exec, Sent(<<>>, <<>>, 0, NoExc)))
    /\ UNCHANGED threadVars
    /\ UNCHANGED <<commands, fallback_command, command_not_found_message,
                   logger, declared>>

\* The help generator on its own: commands are registered and help removed
\* at any time, between messages that ask for help and direct calls of
\* my_help_all
HelpRegistrations ==
    {ArgStr(W_ping), ArgStr(W_help), ArgList(<<NameStr(W_ping), NameStr(W_Ding)>>)}

HelpTexts ==
    HelpAllTexts
    \cup { W_Bot \o Sp \o W_help \o Sp \o <<"A", "l", "l">>,
           W_help \o Sp \o W_ping,
           W_help \o Sp \o W_Ding,
           W_help \o Sp \o W_PING,
           W_help \o Sp \o W_help }

NextHelp ==
    \/ \E arg \in HelpRegistrations, h \in UserHandlers : Command(arg, "False", h)
    \/ RemoveHelp
    \/ \E text \in HelpTexts : Dispatch("room1", text)
    \/ HelpAll
    \/ Return

SpecHelp == Init /\ [][NextHelp]_vars

----------------------------------------------------------------------------
(* Properties *)

IsCall == last.op \in {"execute", "dispatch"}
\* execute_command was reached by the call in progress
Executed == IsCall /\ last.d.exec # NoExec
\* the keywords execute_command was given
CallContext ==
    IF last.op = "dispatch" THEN DispatchContext(last.req, last.d.commandline)
    ELSE last.ctx

\* the context supplies what handler h declares
Supplies(ctx, h) ==
    /\ declared[h] \ {"callback"} \subseteq DOMAIN ctx
    /\ "callback" \in declared[h] => "room_id" \in DOMAIN ctx

\* handler h was called, its body ran, and execute_command gave back what it
\* did: its return value, its generator or its exception
RanAs(exec, h, beh) ==
    /\ exec.target = h
    /\ exec.ran
    /\ IF IsGeneratorFunction(h)
       THEN exec.ret = VGenerator /\ exec.gen = beh /\ exec.exc = NoExc
       ELSE IF beh.kind = "raise"
       THEN exec.exc = Exc("ValueError", beh.args)
       ELSE exec.ret = beh.val /\ exec.exc = NoExc

\* C1, one step: (registration) a successful non-fallback registration binds
\* each of its names to the handler; (persistence) a binding stays until a
\* registration names it again or remove_help removes it; (execution)
\* executing a bound name calls the handler bound to it and returns what the
\* handler did
C1_Step ==
    /\ (last'.op = "command" /\ last'.raised = None /\ last'.fb = "False")
          => \A n \in NamesOf(last'.arg) :
                n \in DOMAIN commands' /\ commands'[n] = last'.func
    /\ \A n \in DOMAIN commands :
          \/ last'.op = "command" /\ n \in NamesOf(last'.arg)
          \/ last'.op = "remove_help" /\ n = W_help
          \/ n \in DOMAIN commands' /\ commands'[n] = commands[n]
    /\ (last'.op \in {"execute", "dispatch"} /\ last'.d.exec # NoExec
        /\ last'.d.command_str \in DOMAIN commands
        /\ commands[last'.d.command_str] \in UserHandlers)
          => LET h == commands[last'.d.command_str]
                 ctx == IF last'.op = "dispatch"
                        THEN DispatchContext(last'.req, last'.d.commandline)
                        ELSE last'.ctx
             IN  /\ last'.d.exec.target = h
                 /\ Supplies(ctx, h) => RanAs(last'.d.exec, h, last'.beh)

\* C1: a handler registered (without fallback) under a string or a list of
\* strings is the one called, and its result the one returned, when any of
\* those names is executed, until the name is registered again or removed
C1_RegisteredNameRunsHandler == [][C1_Step]_vars

\* a handler registered under a list of names was run through its second name
C1_Witness ==
    /\ last.op = "execute"
    /\ last.d.command_str = W_Ding
    /\ last.d.exec.target = "h2"
    /\ last.d.exec.ran
    /\ W_ping \in DOMAIN commands /\ commands[W_ping] = "h2"

\* C2: execute_command calls the handler the registry binds to the name when
\* there is one (also with a fallback set, also for the built-in help), else
\* the fallback when one is set, else no handler and raises CommandNotFound
C2_ResolutionOrder ==
    Executed =>
       LET name == last.d.command_str
           exec == last.d.exec
       IN  IF name \in DOMAIN commands THEN exec.target = commands[name]
           ELSE IF fallback_command # None THEN exec.target = fallback_command
           ELSE /\ exec.target = None
                /\ ~exec.ran
                /\ exec.exc.type = "CommandNotFound"

\* the built-in help was called although a fallback is set
C2_Witness ==
    /\ last.op = "dispatch"
    /\ fallback_command = "h2"
    /\ last.d.command_str = W_help
    /\ last.d.exec.target = MyHelp
    /\ last.d.exec.ran

\* the room the call in progress answers to, and the text of an error reply
Room == last.req.roomId
ErrorReply(description) == VStr(ErrorPrefix \o " " \o description)

\* C3 as claimed: every dispatch creates at least one message, in the
\* originating room, and no exception leaves command_dispatcher
C3_AlwaysReplies ==
    last.op = "dispatch" =>
       /\ Len(last.d.delivered) >= 1
       /\ \A k \in 1..Len(last.d.delivered) : last.d.delivered[k].room = Room
       /\ last.raised = None

\* the handler's body ran and raised (a plain function; a generator function
\* raises only when it is iterated)
HandlerRaised ==
    /\ last.op = "dispatch"
    /\ last.d.exec.ran
    /\ last.d.exec.target \in UserHandlers
    /\ last.d.exec.exc # NoExc

\* C4 as claimed: when the handler raises, exactly one message is created, in
\* the originating room: the error prefix and the exception's second argument,
\* or the generic description when it has none; nothing is propagated
C4_HandlerErrorReply ==
    HandlerRaised =>
       LET args == last.d.exec.exc.args
           description == IF Len(args) >= 2 THEN args[2].s ELSE GenericDescription
       IN  /\ last.d.delivered = <<Call(Room, ErrorReply(description))>>
           /\ last.raised = None

\* the command was not found: no handler bound to the name and no fallback
NotFound == last.op = "dispatch" /\ Executed /\ last.d.exec.target = None

\* C5 as claimed: the single reply to an unknown command is the configured
\* not-found message itself
C5_ReplyIsNotFoundMessage ==
    NotFound =>
       /\ ~last.d.exec.ran
       /\ last.d.delivered = <<Call(Room, VStr(command_not_found_message))>>

\* C5 amended: dispatching a name that is not registered, with no fallback
\* set, runs no handler and creates exactly one message, in the originating
\* room: the error prefix followed by the configured not-found message
C5_ReplyIsPrefixedNotFoundMessage ==
    NotFound =>
       /\ ~last.d.exec.ran
       /\ last.d.calls = <<Call(Room, ErrorReply(command_not_found_message))>>
       /\ last.d.delivered = last.d.calls
       /\ last.raised = None

\* an unknown command was answered after remove_help changed the message
C5_Witness ==
    /\ NotFound
    /\ command_not_found_message = NotFoundShort
    /\ last.d.command_str = W_nope
    /\ Len(last.d.delivered) = 1

\* the handler returned a generator
ReturnedGenerator ==
    last.op = "dispatch" /\ last.d.exec.ran /\ last.d.exec.ret = VGenerator

AllNonBlank(items) == \A k \in 1..Len(items) : IsStr(items[k]) /\ items[k].s # ""

\* C6: for a handler that returns a lazy sequence, send_message is called once
\* per item produced, with the originating room and that item, in the order of
\* production; when every item is a non-blank string all N items are produced
\* and each call creates a message
C6_OneCallPerItem ==
    ReturnedGenerator =>
       /\ Len(last.d.calls) = last.d.produced
       /\ last.d.produced <= Len(last.beh.items)
       /\ \A k \in 1..Len(last.d.calls) :
             last.d.calls[k] = Call(Room, last.beh.items[k])
       /\ AllNonBlank(last.beh.items) =>
             /\ last.d.produced = Len(last.beh.items)
             /\ last.d.delivered = last.d.calls

\* two different replies were sent, in the order they were yielded
C6_Witness ==
    /\ ReturnedGenerator
    /\ last.beh.kind = "return"
    /\ last.beh.items = <<VStr("Reply 1!"), VStr("Reply 2!")>>
    /\ last.d.delivered = <<Call(Room, VStr("Reply 1!")), Call(Room, VStr("Reply 2!"))>>

\* C7 as claimed, for a lazy sequence that raises after its items: the
\* exception does not leave command_dispatcher and one error message is sent
C7_GeneratorErrorCaught ==
    (ReturnedGenerator /\ last.beh.kind = "raise" /\ AllNonBlank(last.beh.items)) =>
       /\ last.raised = None
       /\ Len(last.d.delivered) = Len(last.beh.items) + 1
       /\ last.d.delivered[Len(last.d.delivered)]
             = Call(Room, ErrorReply(last.beh.args[2].s))

\* the handler returned a string
ReturnedString ==
    /\ last.op = "dispatch"
    /\ last.d.exec.ran
    /\ last.d.exec.exc = NoExc
    /\ IsStr(last.d.exec.ret)

\* C8: for a handler that returns a string s, the handler is the one call
\* execute_command made and send_message is called exactly once, with the
\* originating room and s; when s is not blank that call creates the message
C8_OneCallForString ==
    ReturnedString =>
       /\ last.d.exec.target \in UserHandlers => last.d.exec.ret = last.beh.val
       /\ last.d.calls = <<Call(Room, last.d.exec.ret)>>
       /\ last.d.exec.ret.s # "" =>
             last.d.delivered = last.d.calls /\ last.raised = None

\* a handler returned the empty string and send_message was called with it
C8_Witness ==
    /\ ReturnedString
    /\ last.d.exec.target = "h1"
    /\ last.d.exec.ret = VStr("")
    /\ last.d.calls = <<Call(Room, VStr(""))>>

\* C9: a handler whose declared parameters S are among the five recognized
\* ones is never given a keyword outside S; when the context supplies what S
\* names, the handler is called with exactly the keywords of S, each of
\* commandline, event, caller and room_id bound to the context's value and
\* callback to a callback for the context's room
C9_ExactKeywords ==
    (Executed /\ last.d.exec.target \in UserHandlers) =>
       LET h == last.d.exec.target
           passed == last.d.exec.passed
           ctx == CallContext
       IN  declared[h] \subseteq Recognized =>
              /\ DOMAIN passed \subseteq declared[h]
              /\ Supplies(ctx, h) =>
                    /\ last.d.exec.ran
                    /\ DOMAIN passed = declared[h]
                    /\ \A p \in declared[h] :
                          passed[p] = IF p = "callback" THEN VPartial(ctx["room_id"].s)
                                      ELSE ctx[p]

\* a handler declaring commandline and room_id got exactly those two from a
\* context that held more
C9_Witness ==
    /\ last.op = "execute"
    /\ last.d.exec.target = "h1"
    /\ last.d.exec.ran
    /\ declared["h1"] = {"commandline", "room_id"}
    /\ "extra" \in DOMAIN last.ctx
    /\ last.d.exec.passed = [p \in {"commandline", "room_id"} |-> FullContext[p]]

\* C10 as claimed, one step: with a fallback set, a registration with
\* fallback=True fails with CommandSetupError, and the fallback stays
C10_StepAsClaimed ==
    fallback_command # None =>
       /\ fallback_command' = fallback_command
       /\ (last'.op = "command" /\ last'.fb = "True")
             => last'.raised = "CommandSetupError"

C10_SecondFallbackIsSetupError == [][C10_StepAsClaimed]_vars

\* C10 amended, one step: with a fallback set, a registration with
\* fallback=True fails, with TypeError when command_strings is neither a str
\* nor a list nor a function and with CommandSetupError otherwise, and the
\* fallback stays: it changes at most once, from unset to set
C10_Step ==
    fallback_command # None =>
       /\ fallback_command' = fallback_command
       /\ (last'.op = "command" /\ last'.fb = "True")
             => last'.raised = IF last'.arg.type \in {"str", "list", "function"}
                               THEN "CommandSetupError" ELSE "TypeError"

C10_SecondFallbackFails == [][C10_Step]_vars

\* a second fallback registration was refused and the first is still set
C10_Witness ==
    /\ last.op = "command"
    /\ last.fb = "True"
    /\ last.arg = ArgList(<<>>)
    /\ last.raised = "CommandSetupError"
    /\ last.func = "h2"
    /\ fallback_command = "h1"

----------------------------------------------------------------------------
(* Properties of registration *)

\* the names given are a non-empty str or a non-empty list of str
ValidNames(arg) ==
    \/ arg.type = "str" /\ arg.s # <<>>
    \/ /\ arg.type = "list"
       /\ arg.items # <<>>
       /\ \A i \in 1..Len(arg.items) : arg.items[i].isstr

\* some element of the list of names is not a str
HasNonStrName(arg) ==
    arg.type = "list" /\ \E i \in 1..Len(arg.items) : ~arg.items[i].isstr

\* C11, one step: a registration with fallback=False and an empty string or
\* an empty list (the default) as names raises CommandSetupError and changes
\* neither the registry nor the fallback
C11_Step ==
    (last'.op = "command" /\ last'.fb = "False"
     /\ last'.arg \in {ArgStr(<<>>), ArgList(<<>>)})
       => /\ last'.raised = "CommandSetupError"
          /\ commands' = commands
          /\ fallback_command' = fallback_command

C11_NoNameIsSetupError == [][C11_Step]_vars

\* a registration without names was refused on a bot that has commands and a
\* fallback
C11_Witness ==
    /\ last.op = "command"
    /\ last.fb = "False"
    /\ last.arg = ArgList(<<>>)
    /\ last.raised = "CommandSetupError"
    /\ fallback_command = "h1"
    /\ W_ping \in DOMAIN commands

\* C12 as claimed, one step: a registration with fallback=False and valid
\* names succeeds in every state, also when a fallback is set
C12_Step ==
    (last'.op = "command" /\ last'.fb = "False" /\ ValidNames(last'.arg))
       => /\ last'.raised = None
          /\ \A n \in NamesOf(last'.arg) :
                n \in DOMAIN commands' /\ commands'[n] = last'.func

C12_ValidRegistrationSucceeds == [][C12_Step]_vars

\* C13 as claimed, one step: a registration that raises leaves the registry
\* and the fallback as they were
C13_Step ==
    (last'.op = "command" /\ last'.raised # None)
       => /\ commands' = commands
          /\ fallback_command' = fallback_command

C13_FailedRegistrationChangesNothing == [][C13_Step]_vars

\* C14 as claimed, one step, for the names that are not str: a registration
\* whose names are an object that is neither str nor list (nor a function),
\* or a list with an element that is not a str, raises TypeError in every
\* state and for every value of fallback
C14_Step ==
    (last'.op = "command"
     /\ (last'.arg.type = "object" \/ HasNonStrName(last'.arg)))
       => last'.raised = "TypeError"

C14_BadNamesAreTypeError == [][C14_Step]_vars

\* C15 as claimed, one step: a registration with fallback=False under valid
\* names of which one is already bound succeeds; afterwards its names map to
\* the new handler and every other name maps to what it did
C15_Step ==
    (last'.op = "command" /\ last'.fb = "False" /\ ValidNames(last'.arg)
     /\ NamesOf(last'.arg) \cap DOMAIN commands # {})
       => /\ last'.raised = None
          /\ DOMAIN commands' = DOMAIN commands \cup NamesOf(last'.arg)
          /\ \A n \in DOMAIN commands' :
                commands'[n] = IF n \in NamesOf(last'.arg) THEN last'.func
                               ELSE commands[n]

C15_LastWriteWins == [][C15_Step]_vars

----------------------------------------------------------------------------
(* Properties of the help generator *)

\* my_help_all ran in call l: directly, or through my_help
HelpAllCalled(l) ==
    /\ l.op \in {"dispatch", "execute", "help_all"}
    /\ RanHelpAll(l.d.exec)

\* my_help ran in dispatch l for the command named by the second token
HelpForCommand(l) ==
    /\ l.op = "dispatch"
    /\ l.d.exec.target = MyHelp
    /\ Len(l.d.commandline) >= 2
    /\ Lower(l.d.commandline[2]) # <<"a", "l", "l">>

\* the text a help call returned
HelpText(l) == l.d.exec.ret.s

\* the registries over the names the model registers
Registries ==
    UNION {[N -> Handlers] : N \in SUBSET {W_ping, W_Ding, W_help}}

\* C16 as claimed: what help-all returns is the preamble and, for the
\* registry as it is at the call, one line per handler with the handler's
\* names sorted and joined by ", ", the lines sorted
C16_HelpAllGroupsRegistry ==
    HelpAllCalled(last) => HelpText(last) = HelpAllText(commands)

\* C17 as claimed: what help-all returns lists exactly the names that are
\* registered at the time of the call
C17_HelpAllListsCurrentNames ==
    HelpAllCalled(last) =>
       \E R \in Registries :
          /\ DOMAIN R = DOMAIN commands
          /\ HelpText(last) = HelpAllText(R)

\* C18, one step: a call of help-all that follows another with no
\* registration or removal between them returns the cached string, which is
\* what the call before returned, and leaves the cache as it is; the cache
\* holds what the last call returned and only a call of help-all writes it
C18_Step ==
    /\ (HelpAllCalled(last') /\ help_all_calls >= 1)
          => /\ HelpText(last') = help_all_string
             /\ help_all_string' = help_all_string
    /\ HelpAllCalled(last')
          => help_all_string' = HelpText(last') /\ HelpText(last') # ""
    /\ ~HelpAllCalled(last') => help_all_string' = help_all_string

C18_ConsecutiveHelpAllIdentical == [][C18_Step]_vars

\* help-all was called a second time in a row on a bot with three commands
C18_Witness ==
    /\ HelpAllCalled(last)
    /\ help_all_calls = 2
    /\ DOMAIN commands = {W_help, W_ping, W_Ding}
    /\ HelpText(last) = help_all_string
    /\ HelpText(last) = HelpAllText(commands)

\* C19, one step: my_help called with a command line without a second token,
\* or with a second token that is "all" in any letter case, returns what
\* my_help_all returns and leaves the cache my_help_all leaves; on a bot as
\* constructed that is the preamble and the one line "help"
C19_Step ==
    (last'.op = "dispatch" /\ last'.d.exec.target = MyHelp
     /\ (Len(last'.d.commandline) < 2
         \/ Lower(last'.d.commandline[2]) = <<"a", "l", "l">>))
       => /\ last'.d.exec.ran
          /\ last'.d.exec.exc = NoExc
          /\ HelpText(last') = MyHelpAll(commands, help_all_string).text
          /\ help_all_string' = MyHelpAll(commands, help_all_string).cache
          /\ (commands = [n \in {W_help} |-> MyHelp] /\ help_all_string = "")
                => HelpText(last') =
                      "Type ^help [command]^ for more specific help about any of these commands:\n - help"

C19_HelpDelegatesToHelpAll == [][C19_Step]_vars

\* "help ALL" was answered with the list of a bot that has more commands
C19_Witness ==
    /\ last.op = "dispatch"
    /\ last.d.exec.target = MyHelp
    /\ last.d.commandline = <<W_help, W_ALL>>
    /\ HelpText(last) =
          "Type ^help [command]^ for more specific help about any of these commands:\n - Ding, ping\n - help"
    /\ last.d.delivered = <<Call("room1", last.d.exec.ret)>>

\* C20: my_help for a named command does not raise and returns the dedented
\* documentation of the handler bound to the name, or, when that handler has
\* none, the "no help available" text with the name, or, when no handler is
\* bound to the name, the "no command with the name" text with the name
C20_HelpForNamedCommand ==
    HelpForCommand(last) =>
       LET name == last.d.commandline[2] IN
       /\ last.d.exec.ran
       /\ last.d.exec.exc = NoExc
       /\ last.raised = None
       /\ HelpText(last) =
             IF name \notin DOMAIN commands
             THEN "I don't have a command with the name \"" \o Str(name) \o "\"."
             ELSE IF Doc(commands[name]) = <<>>
             THEN "There is no help available for ^" \o Str(name) \o "^."
             ELSE Dedent(Doc(commands[name]))

\* the documentation of a registered handler was returned dedented
C20_Witness ==
    /\ HelpForCommand(last)
    /\ last.d.commandline[2] = W_ping
    /\ W_ping \in DOMAIN commands /\ commands[W_ping] = "h1"
    /\ HelpText(last) = "Replies pong.\n  Usage: ^ping^"

----------------------------------------------------------------------------
(* Properties of remove_help and of the dispatcher's handling of the text *)

\* the tokens shlex.split gives for the text of the call in progress
TokensOf(l) == ShlexSplit(StraightQuotes(l.req.text))

\* C21, one step: remove_help removes the name "help", whatever is bound to
\* it, keeps every other binding and the fallback, sets the not-found
\* message to "Command not found." and does not raise; called again it
\* changes nothing; afterwards, while no fallback is set and "help" is not
\* registered again, the message "help" is answered with the one reply
\* "(!) Error: Command not found."
C21_Step ==
    /\ last'.op = "remove_help"
          => /\ last'.raised = None
             /\ DOMAIN commands' = DOMAIN commands \ {W_help}
             /\ \A n \in DOMAIN commands' : commands'[n] = commands[n]
             /\ fallback_command' = fallback_command
             /\ command_not_found_message' = NotFoundShort
             /\ (W_help \notin DOMAIN commands
                 /\ command_not_found_message = NotFoundShort)
                   => /\ commands' = commands
                      /\ command_not_found_message' = command_not_found_message
    /\ (last'.op = "dispatch" /\ last'.req.text = W_help
        /\ W_help \notin DOMAIN commands /\ fallback_command = None
        /\ command_not_found_message = NotFoundShort)
          => /\ last'.d.exec.target = None
             /\ last'.d.delivered
                   = <<Call(last'.req.roomId, VStr("(!) Error: Command not found."))>>
             /\ last'.raised = None

C21_RemoveHelp == [][C21_Step]_vars

\* after remove_help on a bot with other commands, "help" was answered with
\* the short not-found error
C21_Witness ==
    /\ last.op = "dispatch"
    /\ last.req.text = W_help
    /\ DOMAIN commands = {W_ping, W_Ding}
    /\ command_not_found_message = NotFoundShort
    /\ last.d.delivered = <<Call("room1", VStr("(!) Error: Command not found."))>>

\* C22: when shlex.split fails on the text, command_dispatcher sends the one
\* formatting-error reply to the room of the message, calls no handler and
\* raises nothing
C22_BadFormatIsOneReply ==
    (last.op = "dispatch" /\ ~TokensOf(last).ok)
       => /\ last.d.exec = NoExec
          /\ last.d.calls = <<Call(Room, VStr(FormatError))>>
          /\ last.d.delivered = last.d.calls
          /\ last.raised = None

\* a message with an unclosed quote was answered on a bot with a fallback
C22_Witness ==
    /\ last.op = "dispatch"
    /\ ~TokensOf(last).ok
    /\ fallback_command = "h1"
    /\ last.d.delivered = <<Call("room2", VStr(FormatError))>>

\* C23: for a text whose first token is the bot's name and that has more
\* tokens, the command line is the tokens after the first, in order, the
\* command looked up is the lower-cased first of them, and the handler gets,
\* of what it declares, that command line and the event, person and room of
\* the message
C23_NameStripped ==
    (last.op = "dispatch" /\ TokensOf(last).ok
     /\ Len(TokensOf(last).tokens) >= 2
     /\ TokensOf(last).tokens[1] = MyName)
       => /\ last.d.commandline = Tail(TokensOf(last).tokens)
          /\ last.d.command_str = Lower(TokensOf(last).tokens[2])
          /\ last.d.exec # NoExec
          /\ last.d.exec.ran
                => \A p \in DOMAIN last.d.exec.passed \ {"callback"} :
                      last.d.exec.passed[p] =
                         CASE p = "commandline" -> VList(Tail(TokensOf(last).tokens))
                           [] p = "event" -> VEvent(last.req)
                           [] p = "caller" -> VPerson(last.req)
                           [] p = "room_id" -> VStr(last.req.roomId)

\* "Bot ping" ran the handler of "ping" with the command line <<"ping">>
C23_Witness ==
    /\ last.op = "dispatch"
    /\ last.req.text = W_Bot \o Sp \o W_ping
    /\ last.d.exec.target = "h1"
    /\ last.d.exec.ran
    /\ last.d.exec.passed =
          [p \in {"commandline", "room_id"} |->
              IF p = "commandline" THEN VList(<<W_ping>>) ELSE VStr(last.req.roomId)]

\* C24 as claimed: a dispatch whose command token equals a registered name
\* when letter case is ignored calls the handler registered under that name
C24_CaseInsensitiveLookup ==
    (last.op = "dispatch" /\ last.d.exec # NoExec)
       => \A n \in DOMAIN commands :
             Lower(n) = Lower(last.d.commandline[1])
                => last.d.exec.target = commands[n]

\* C28, one step: a call of command_dispatcher, execute_command or
\* my_help_all leaves the registry, the fallback and the not-found message
\* as they are, and writes the cached help-all string only with what
\* my_help_all returns
C28_Step ==
    last'.op \in {"dispatch", "execute", "help_all"}
       => /\ commands' = commands
          /\ fallback_command' = fallback_command
          /\ command_not_found_message' = command_not_found_message
          /\ help_all_string' # help_all_string
                => /\ HelpAllCalled(last')
                   /\ help_all_string' = HelpText(last')

C28_DispatchKeepsRegistry == [][C28_Step]_vars

\* a dispatch of help-all on a bot with three commands wrote the cache
C28_Witness ==
    /\ last.op = "dispatch"
    /\ HelpAllCalled(last)
    /\ DOMAIN commands = {W_help, W_ping, W_Ding}
    /\ help_all_calls = 1
    /\ help_all_string = HelpAllText(commands)

----------------------------------------------------------------------------
(* SparkBot.command_dispatcher statement by statement, run by threads on a *)
(* bot whose commands were registered before the threads started           *)

\* most calls of its callback that a handler makes
MaxSaid == 1

\* what a thread leaves alone
botVars == <<commands, fallback_command, command_not_found_message, logger,
             declared, last, help_all_calls, webhook_secret, http,
             minargs_call>>

CoreDispatcher == "SparkBot.command_dispatcher"

\* messages.create(room, markdown=text), core.py lines 359-362, by thread w
\* from the dispatcher's send_message or through a callback
Created(w, via, call) ==
    [worker |-> w, via |-> via, room |-> call.room, text |-> call.text]

CreatedBy(w, via, delivered) ==
    [i \in 1..Len(delivered) |-> Created(w, via, delivered[i])]

\* the i-th item of a generator handler
Item(i) == VStr("Reply " \o ToString(i) \o "!")

\* what the handlers do when a thread calls them: a generator yields up to
\* MaxYield items and ends or raises, or yields a blank item
ThreadBehaviours(h) ==
    IF h \notin UserHandlers THEN {NoBeh}
    ELSE IF IsGeneratorFunction(h)
    THEN {Beh(kind, VNone,
              IF kind = "raise" THEN <<VStr("Whoops"), VStr("Hey, an exception")>>
              ELSE <<>>,
              [i \in 1..n |-> Item(i)]) :
             kind \in {"return", "raise"}, n \in 0..MaxYield}
         \cup {Beh("return", VNone, <<>>, <<Item(1), VStr("")>>)}
    ELSE {Beh("return", VStr("pong"), <<>>, <<>>),
          Beh("return", VNone, <<>>, <<>>),
          Beh("raise", VNone, <<VStr("Whoops"), VStr("Hey, an exception")>>, <<>>)}

\* the thread ends with an exception nobody catches
Died(worker, exc) == [worker EXCEPT !.pc = "died", !.exc = exc]

\* threading.Thread(target=bot.command_dispatcher, args=(user_request,)).start()
Start(w, room, text) ==
    /\ workers[w].pc = "idle"
    /\ workers' = [workers EXCEPT ![w] =
                      Worker("started", CoreDispatcher, Request(room, text), NoBeh,
                             NoExec, VNone, 0, 0, 0, "", "", NoExc)]
    /\ UNCHANGED <<botVars, help_all_string, sink>>

\* core.py lines 233-241 and execute_command up to the call of the handler
\* (275-345), with the tokens left after my name is removed
BindTokens(w, commandline) ==
    IF commandline = <<>>
    THEN workers' = [workers EXCEPT ![w] = Died(workers[w], IndexError)]
    ELSE \E beh \in ThreadBehaviours(Resolve(Lower(commandline[1]))) :
            workers' = [workers EXCEPT
                           ![w].pc = "handler",
                           ![w].beh = beh,
                           ![w].exec = ExecuteCommand(Lower(commandline[1]),
                                          DispatchContext(workers[w].req, commandline),
                                          beh)]

\* core.py lines 216-241, with the result of shlex.split
BindSplit(w, split) ==
    IF ~split.ok
    THEN workers' = [workers EXCEPT ![w].pc = "reply", ![w].final = VStr(FormatError)]
    ELSE IF split.tokens = <<>>
    THEN workers' = [workers EXCEPT ![w] = Died(workers[w], IndexError)]
    ELSE BindTokens(w, StripMyName(split.tokens))

\* core.py lines 208-241: the text is tokenized and the command called
Bind(w) ==
    /\ workers[w].pc = "started"
    /\ workers[w].target = CoreDispatcher
    /\ BindSplit(w, ShlexSplit(StraightQuotes(workers[w].req.text)))
    /\ UNCHANGED <<botVars, help_all_string, sink>>

\* the worker after the call of the handler is over, e being what the except
\* clause makes of the exception: core.py lines 242-257
Returned(worker, e) ==
    IF worker.exec.exc = NoExc
    THEN [worker EXCEPT !.pc = "reply", !.final = worker.exec.ret]
    ELSE IF e.exc # NoExc THEN Died(worker, e.exc)
    ELSE [worker EXCEPT !.pc = "reply", !.final = e.final]

\* the handler's body is over: execute_command returns or raises
HandlerReturn(w) ==
    /\ workers[w].pc = "handler"
    /\ workers' = [workers EXCEPT ![w] =
                      Returned(workers[w], ErrorResponse(workers[w].exec.exc))]
    /\ help_all_string' = IF workers[w].exec.target = MyHelp
                          THEN workers[w].exec.cache ELSE help_all_string
    /\ UNCHANGED <<botVars, sink>>

\* the room a thread's dispatcher replies to: room_id, core.py line 208
ReplyRoomShared(w) ==
    workers[CHOOSE v \in Workers : workers[v].pc # "idle"].req.roomId

ReplyRoom(w) == workers[w].req.roomId

\* self.send_message(room_id, v) by the dispatcher of thread w: the message
\* is created and the thread goes on to pc, or send_message raises
Send(w, v, r, pc) ==
    /\ sink' = sink \o CreatedBy(w, "dispatcher", r.delivered)
    /\ workers' = [workers EXCEPT ![w] =
                      IF r.exc # NoExc
                      THEN Died([workers[w] EXCEPT !.calls = @ + 1], r.exc)
                      ELSE [workers[w] EXCEPT !.calls = @ + 1, !.pc = pc]]

\* core.py lines 225-226 and 260-262: a str is sent, a generator is iterated
Reply(w) ==
    /\ workers[w].pc = "reply"
    /\ IF IsStr(workers[w].final)
       THEN Send(w, workers[w].final,
                 SendMessage(ReplyRoom(w), workers[w].final), "done")
       ELSE /\ workers' = [workers EXCEPT ![w].pc =
                              IF workers[w].final.tag = "generator"
                              THEN "next" ELSE "done"]
            /\ sink' = sink
    /\ UNCHANGED <<botVars, help_all_string>>

\* NextItem that takes the next item before the last one is sent
NextItemAhead(w) ==
    /\ workers[w].pc \in {"next", "item"}
    /\ workers[w].produced < Len(workers[w].exec.gen.items)
    /\ workers' = [workers EXCEPT ![w].produced = @ + 1, ![w].pc = "item"]
    /\ UNCHANGED <<botVars, help_all_string, sink>>

\* core.py line 263: the for statement asks the generator for its next item;
\* the generator yields it, ends, or raises
NextItem(w) ==
    /\ workers[w].pc = "next"
    /\ workers' = [workers EXCEPT ![w] =
          IF workers[w].produced < Len(workers[w].exec.gen.items)
          THEN [workers[w] EXCEPT !.produced = @ + 1, !.pc = "item"]
          ELSE IF workers[w].exec.gen.kind = "raise"
          THEN Died(workers[w], Exc("ValueError", workers[w].exec.gen.args))
          ELSE [workers[w] EXCEPT !.pc = "done"]]
    /\ UNCHANGED <<botVars, help_all_string, sink>>

\* core.py line 264: the item just produced is sent
SendItem(w) ==
    /\ workers[w].pc = "item"
    /\ Send(w, workers[w].exec.gen.items[workers[w].produced],
            SendMessage(ReplyRoom(w),
                        workers[w].exec.gen.items[workers[w].produced]),
            "next")
    /\ UNCHANGED <<botVars, help_all_string>>

\* the bot of the thread specifications: "ping" is the generator h2, and h1
\* may be the fallback
InitThreads ==
    /\ commands = [n \in {W_help, W_ping} |-> IF n = W_help THEN MyHelp ELSE "h2"]
    /\ fallback_command \in {None, "h1"}
    /\ command_not_found_message = NotFoundLong
    /\ help_all_string = ""
    /\ logger \in BOOLEAN
    /\ declared = DeclaredDefault
    /\ last = Idle
    /\ help_all_calls = 0
    /\ NoThreads

StreamTexts ==
    { W_ping, W_Bot \o Sp \o W_help \o Sp \o W_ping, W_nope,
      W_ping \o Sp \o <<"'">> }

NextStream ==
    \/ \E w \in Workers, room \in Rooms, text \in StreamTexts : Start(w, room, text)
    \/ \E w \in Workers : Bind(w)
    \/ \E w \in Workers : HandlerReturn(w)
    \/ \E w \in Workers : Reply(w)
    \/ \E w \in Workers : NextItem(w)
    \/ \E w \in Workers : SendItem(w)

SpecStream == InitThreads /\ [][NextStream]_vars

----------------------------------------------------------------------------
(* Properties of the dispatcher's replies in threads *)

\* the messages thread w's dispatcher has created so far, in order
RepliesOf(snk, w) ==
    SelectSeq(snk, LAMBDA e : e.worker = w /\ e.via = "dispatcher")

RepliesAsCalls(snk, w) ==
    [i \in 1..Len(RepliesOf(snk, w)) |->
        Call(RepliesOf(snk, w)[i].room, RepliesOf(snk, w)[i].text)]

IsPrefix(p, q) == Len(p) <= Len(q) /\ \A i \in 1..Len(p) : p[i] = q[i]

\* C25, one step: a generator's next item is produced only when every item
\* produced before it has been handed to send_message and, unless the
\* thread ended there, created as a message; so the items produced are never
\* more than one ahead of the messages created, and the message created in a
\* step is the item produced last
C25_Step ==
    \A w \in Workers :
       /\ workers'[w].produced - Len(RepliesOf(sink', w)) <= 1
       /\ workers'[w].produced # workers[w].produced
             => /\ workers'[w].produced = workers[w].produced + 1
                /\ workers[w].calls = workers[w].produced
                /\ Len(RepliesOf(sink, w)) = workers[w].produced
       /\ (workers[w].pc = "item" /\ RepliesOf(sink', w) # RepliesOf(sink, w))
             => RepliesOf(sink', w) =
                   Append(RepliesOf(sink, w),
                          Created(w, "dispatcher",
                                  Call(workers[w].req.roomId, Item(workers[w].produced))))

C25_StreamsItemByItem == [][C25_Step]_vars

\* a generator's second item has been produced and not yet sent, after its
\* first item was created as a message
C25_Witness ==
    /\ workers["w1"].pc = "item"
    /\ workers["w1"].produced = 2
    /\ RepliesOf(sink, "w1") =
          <<Created("w1", "dispatcher", Call(workers["w1"].req.roomId, Item(1)))>>

----------------------------------------------------------------------------
(* The callback: functools.partial(self.send_message, room_id) *)

CallbackTexts == {VStr("Some markdown"), VStr("")}

\* a callback that sends to the first room
CallPartialFirstRoom(cb, m) == SendMessage("room1", m)

\* callback(m): send_message(room_id, m) with the room the partial holds
CallPartial(cb, m) == SendMessage(cb.s, m)

\* thread w is inside the body of a handler: a function that was called and
\* has not returned, or a generator that the for statement iterates
InHandler(w) ==
    /\ workers[w].exec.ran
    /\ workers[w].exec.target \in UserHandlers
    /\ IF IsGeneratorFunction(workers[w].exec.target)
       THEN workers[w].pc = "next"
       ELSE workers[w].pc = "handler" /\ workers[w].exec.exc = NoExc

\* the worker after its handler called the callback with result r: an
\* exception of send_message leaves the handler's body
Said(worker, r) ==
    IF r.exc = NoExc THEN [worker EXCEPT !.said = @ + 1]
    ELSE IF IsGeneratorFunction(worker.exec.target)
    THEN Died([worker EXCEPT !.said = @ + 1], r.exc)
    ELSE [worker EXCEPT !.said = @ + 1,
                        !.exec = [@ EXCEPT !.exc = r.exc, !.ret = VNone]]

\* the handler's body calls callback(m), as in test_callback
CallbackCall(w, m) ==
    /\ InHandler(w)
    /\ "callback" \in DOMAIN workers[w].exec.passed
    /\ workers[w].said < MaxSaid
    /\ sink' = sink \o CreatedBy(w, "callback",
                           CallPartial(workers[w].exec.passed["callback"], m).delivered)
    /\ workers' = [workers EXCEPT ![w] =
                      Said(workers[w],
                           CallPartial(workers[w].exec.passed["callback"], m))]
    /\ UNCHANGED <<botVars, help_all_string>>

\* handlers with and without a callback parameter: "ping" is h1, written
\* with any set of parameter names, and the fallback is the generator h2
InitCallback ==
    /\ commands = [n \in {W_help, W_ping} |-> IF n = W_help THEN MyHelp ELSE "h1"]
    /\ fallback_command = "h2"
    /\ command_not_found_message = NotFoundLong
    /\ help_all_string = ""
    /\ logger \in BOOLEAN
    /\ declared \in {[h \in Handlers |-> IF h = "h1" THEN S ELSE DeclaredDefault[h]] :
                       S \in SUBSET ParamNames}
    /\ last = Idle
    /\ help_all_calls = 0
    /\ NoThreads

CallbackRequests == {W_Bot \o Sp \o W_ping, W_nope, W_help \o Sp \o W_ping}

NextCallback ==
    \/ \E text \in CallbackRequests : Start("w1", "room1", text)
    \/ Start("w2", "room2", W_Bot \o Sp \o W_ping)
    \/ \E w \in Workers : Bind(w)
    \/ \E w \in Workers, m \in CallbackTexts : CallbackCall(w, m)
    \/ \E w \in Workers : HandlerReturn(w)
    \/ \E w \in Workers : Reply(w)
    \/ \E w \in Workers : NextItem(w)
    \/ \E w \in Workers : SendItem(w)

SpecCallback == InitCallback /\ [][NextCallback]_vars

\* C29, one step: once execute_command has bound the parameters of the
\* handler it resolved, the keywords hold a callback exactly when the handler
\* declares a parameter named callback, and that callback is the partial of
\* send_message with the room of the request; a call of the callback with a
\* non-blank message m creates the message m in that room, and only a
\* handler that was handed a callback creates messages that way
C29_Step ==
    \A w \in Workers :
       /\ workers'[w].exec.target \in Handlers
             => /\ "callback" \in DOMAIN workers'[w].exec.passed
                      <=> "callback" \in declared[workers'[w].exec.target]
                /\ "callback" \in DOMAIN workers'[w].exec.passed
                      => workers'[w].exec.passed["callback"]
                            = VPartial(workers'[w].req.roomId)
       /\ workers'[w].said # workers[w].said
             => /\ "callback" \in declared[workers[w].exec.target]
                /\ \E m \in CallbackTexts :
                      sink' = IF m.s # ""
                              THEN Append(sink, Created(w, "callback",
                                                        Call(workers[w].req.roomId, m)))
                              ELSE sink
       /\ \A i \in 1..Len(sink') :
             (sink'[i].worker = w /\ sink'[i].via = "callback")
                => /\ sink'[i].room = workers'[w].req.roomId
                   /\ "callback" \in declared[workers'[w].exec.target]

C29_CallbackBoundToRoom == [][C29_Step]_vars

\* two threads ran a handler that declares only callback, as the handler of
\* test_callback, and each called it: each message is in its own room
C29_Witness ==
    /\ declared["h1"] = {"callback"}
    /\ workers["w1"].exec.target = "h1"
    /\ workers["w2"].exec.target = "h1"
    /\ workers["w1"].exec.passed = [p \in {"callback"} |-> VPartial("room1")]
    /\ workers["w2"].exec.passed = [p \in {"callback"} |-> VPartial("room2")]
    /\ sink = << Created("w2", "callback", Call("room2", VStr("Some markdown"))),
                 Created("w1", "callback", Call("room1", VStr("Some markdown"))) >>

----------------------------------------------------------------------------
(* my_help_all statement by statement, called by threads at the same time  *)
(* on a bot whose commands were registered before                          *)

HelpAllMethod == "SparkBot.my_help_all"

\* the registries a finished setup can leave
ClosedRegistries ==
    { [n \in {W_help} |-> MyHelp],
      [n \in {W_help, W_ping} |-> IF n = W_help THEN MyHelp ELSE "h1"],
      [n \in {W_help, W_ping, W_Ding} |->
          IF n = W_help THEN MyHelp ELSE IF n = W_ping THEN "h1" ELSE "h2"],
      [n \in {W_ping, W_Ding} |-> "h1"] }

InitRace ==
    /\ commands \in ClosedRegistries
    /\ fallback_command = None
    /\ command_not_found_message =
          IF W_help \in DOMAIN commands THEN NotFoundLong ELSE NotFoundShort
    /\ help_all_string = ""
    /\ logger \in BOOLEAN
    /\ declared = DeclaredDefault
    /\ last = Idle
    /\ help_all_calls = 0
    /\ NoThreads

\* a thread calls bot.my_help_all()
HelpAllStart(w) ==
    /\ workers[w].pc \in {"idle", "returned"}
    /\ workers' = [workers EXCEPT ![w] =
                      Worker("help_check", HelpAllMethod, NoRequest, NoBeh, NoExec,
                             VNone, 0, 0, 0, "", "", NoExc)]
    /\ UNCHANGED <<botVars, help_all_string, sink>>

\* core.py line 419: if not self._help_all_string
HelpAllCheck(w) ==
    /\ workers[w].pc = "help_check"
    /\ workers' = [workers EXCEPT ![w].pc =
                      IF help_all_string = "" THEN "help_compute" ELSE "help_return"]
    /\ UNCHANGED <<botVars, help_all_string, sink>>

\* core.py lines 420-445: output is built from self.commands
HelpAllCompute(w) ==
    /\ workers[w].pc = "help_compute"
    /\ workers' = [workers EXCEPT ![w].pc = "help_write",
                                  ![w].output = HelpAllText(commands)]
    /\ UNCHANGED <<botVars, help_all_string, sink>>

\* an assignment that adds the output to what the cache holds
WrittenAppended(cache, output) == cache \o output

\* core.py line 447: self._help_all_string = output
Written(cache, output) == output

HelpAllWrite(w) ==
    /\ workers[w].pc = "help_write"
    /\ help_all_string' = Written(help_all_string, workers[w].output)
    /\ workers' = [workers EXCEPT ![w].pc = "help_return"]
    /\ UNCHANGED <<botVars, sink>>

\* core.py line 449: return self._help_all_string
HelpAllReturn(w) ==
    /\ workers[w].pc = "help_return"
    /\ workers' = [workers EXCEPT ![w].pc = "returned", ![w].ret = help_all_string]
    /\ UNCHANGED <<botVars, help_all_string, sink>>

NextRace ==
    \/ \E w \in Workers : HelpAllStart(w)
    \/ \E w \in Workers : HelpAllCheck(w)
    \/ \E w \in Workers : HelpAllCompute(w)
    \/ \E w \in Workers : HelpAllWrite(w)
    \/ \E w \in Workers : HelpAllReturn(w)

SpecRace == InitRace /\ [][NextRace]_vars

\* C27: with the registry fixed, in every interleaving of threads that call
\* my_help_all, every call that has returned returned the string one call
\* alone computes from the registry, and the cached string is empty or that
\* string
C27_RacingHelpAllAgrees ==
    /\ help_all_string \in {"", MyHelpAll(commands, "").text}
    /\ \A w \in Workers :
          workers[w].pc = "returned"
             => workers[w].ret = MyHelpAll(commands, "").text

\* both threads found the cache empty and computed the string; the first has
\* written it and returned, the second is about to write it again
C27_Witness ==
    /\ workers["w1"].pc = "returned"
    /\ workers["w1"].output # ""
    /\ workers["w2"].pc = "help_write"
    /\ help_all_string = workers["w2"].output
    /\ DOMAIN commands = {W_help, W_ping, W_Ding}

----------------------------------------------------------------------------
(* The receiver (src/sparkbot/receiver.py): on_post and the thread it      *)
(* starts                                                                  *)

ReceiverDispatcher == "ReceiverResource.command_dispatcher"

Posts ==
    {Post("none", sig, "other", "", <<>>) : sig \in {"missing", "bad"}}
    \cup {Post("junk", sig, "other", "", <<>>) : sig \in {"missing", "good", "bad"}}
    \cup {Post("json", sig, actor, room, W_ping) :
             sig \in {"missing", "good", "bad"}, actor \in {"me", "other"},
             room \in Rooms}

\* the response to an exception that leaves on_post
ServerError == Response(500, "", FALSE)

\* OnPostEvent without the comparison of the actor with the bot
OnPostEventAnyActor(post) ==
    IF webhook_secret /\ post.signature = "missing" THEN ServerError
    ELSE IF webhook_secret /\ post.signature # "good"
    THEN Response(403, "", FALSE)
    ELSE Response(204, "", TRUE)

\* receiver.py lines 52-79, for a body that json.loads accepted
OnPostEvent(post) ==
    IF webhook_secret /\ post.signature = "missing"
    THEN \* get_header returns None, and hmac.compare_digest raises TypeError
         ServerError
    ELSE IF webhook_secret /\ post.signature # "good"
    THEN Response(403, "", FALSE)
    ELSE IF post.actor = "me"
    THEN Response(204, "", FALSE)
    ELSE Response(204, "", TRUE)

\* on_post(req, resp), receiver.py lines 35-79
OnPostResponse(post) ==
    IF post.body = "none" THEN Response(400, "Missing command", FALSE)
    ELSE IF post.body = "junk" THEN ServerError   \* json.loads raises
    ELSE OnPostEvent(post)

\* the thread of receiver.py line 76: command_dispatcher with the arguments
\* (teams_api, user_request)
Started(post) ==
    Worker("started", ReceiverDispatcher, Request(post.room, post.text), NoBeh,
           NoExec, VNone, 0, 0, 0, "", "", NoExc)

\* the request and the answer to it
Exchange(post, resp) ==
    [status |-> resp.status, body |-> resp.body, started |-> resp.started,
     post |-> post]

OnPost(post) ==
    /\ IF OnPostResponse(post).started
       THEN \E w \in Workers :
               /\ workers[w].pc = "idle"
               /\ workers' = [workers EXCEPT ![w] = Started(post)]
       ELSE workers' = workers
    /\ http' = Exchange(post, OnPostResponse(post))
    /\ UNCHANGED <<commands, fallback_command, command_not_found_message, logger,
                   declared, last, help_all_calls, webhook_secret,
                   help_all_string, sink, minargs_call>>

\* the thread calls self.command_dispatcher(self.teams_api, user_request):
\* the method takes one argument (receiver.py line 81), so the call raises
\* TypeError
ReceiverRun(w) ==
    /\ workers[w].pc = "started"
    /\ workers[w].target = ReceiverDispatcher
    /\ workers' = [workers EXCEPT ![w] =
                      Died(workers[w],
                           Exc("TypeError",
                               <<VStr("command_dispatcher() takes 2 positional arguments but 3 were given")>>))]
    /\ UNCHANGED <<botVars, help_all_string, sink>>

\* a thread that is over is forgotten
Reap(w) ==
    /\ workers[w].pc \in {"done", "died"}
    /\ workers' = [workers EXCEPT ![w] = NoWorker]
    /\ UNCHANGED <<botVars, help_all_string, sink>>

\* the name commandline is read at line 113 without having been assigned
UnboundLocalError ==
    Exc("UnboundLocalError",
        <<VStr("local variable 'commandline' referenced before assignment")>>)

\* receiver.py lines 119-126: execute_command is called outside any try, and
\* what it returns is sent with send_spark_message
ReceiverRespond(room, exec) ==
    IF exec.exc # NoExc THEN Sent(<<>>, <<>>, 0, exec.exc)
    ELSE SendResponse(room, exec.ret, exec.gen)

\* receiver.py lines 116-126, with the result of execute_command
ReceiverCommand(req, commandline, command_str, exec) ==
    Dispatched(commandline, command_str, exec, ReceiverRespond(req.roomId, exec))

\* receiver.py lines 116-126, with the tokens left after my name is removed
ReceiverTokens(req, beh, commandline) ==
    IF commandline = <<>>
    THEN Dispatched(commandline, <<>>, NoExec, Sent(<<>>, <<>>, 0, IndexError))
    ELSE ReceiverCommand(req, commandline, Lower(commandline[1]),
                         ExecuteCommand(Lower(commandline[1]),
                                        DispatchContext(req, commandline), beh))

\* receiver.py lines 100-126, with the result of shlex.split: after a
\* ValueError the response is built but not sent, and the method goes on
ReceiverSplit(req, beh, split) ==
    IF ~split.ok
    THEN Dispatched(<<>>, <<>>, NoExec, Sent(<<>>, <<>>, 0, UnboundLocalError))
    ELSE IF split.tokens = <<>>
    THEN Dispatched(<<>>, <<>>, NoExec, Sent(<<>>, <<>>, 0, IndexError))
    ELSE ReceiverTokens(req, beh, StripMyName(split.tokens))

\* ReceiverResource.command_dispatcher(user_request): the text is split as
\* it is, smart quotes included
ReceiverCommandDispatcher(req, beh) ==
    ReceiverSplit(req, beh, ShlexSplit(req.text))

ReceiverDispatchDone(req, beh, d) ==
    /\ beh \in Behaviours(d.exec.target)
    /\ help_all_string' = CacheAfter(d)
    /\ help_all_calls' = CallsAfter(d.exec)
    /\ last' = LastOf("receiver_dispatch", ArgObject, "False", None, d.exc.type,
                      req, NoArgs, beh, d)

\* the resource's command_dispatcher called with the one argument it takes
ReceiverDispatch(room, text) ==
    /\ last.op = "idle"
    /\ \E beh \in AllBehaviours :
          ReceiverDispatchDone(Request(room, text), beh,
                               ReceiverCommandDispatcher(Request(room, text), beh))
    /\ UNCHANGED threadVars
    /\ UNCHANGED <<commands, fallback_command, command_not_found_message,
                   logger, declared>>

ReceiverTexts ==
    { W_ping, W_Bot \o Sp \o W_ping, W_nope, W_help \o Sp \o W_ping,
      W_ping \o Sp \o <<"'">>,
      W_ping \o Sp \o <<"LSQUO", "x">> }

\* a bot with a receiver, with or without a webhook secret (core.py lines
\* 96-109), and "ping" registered
InitReceiver ==
    /\ commands = [n \in {W_help, W_ping} |-> IF n = W_help THEN MyHelp ELSE "h1"]
    /\ fallback_command = None
    /\ command_not_found_message = NotFoundLong
    /\ help_all_string = ""
    /\ logger \in BOOLEAN
    /\ declared = DeclaredDefault
    /\ last = Idle
    /\ help_all_calls = 0
    /\ webhook_secret \in BOOLEAN
    /\ workers = [w \in Workers |-> NoWorker]
    /\ sink = <<>>
    /\ http = Exchange(NoPost, NoResponse)
    /\ minargs_call = NoMinargsCall

NextReceiver ==
    \/ \E post \in Posts : OnPost(post)
    \/ \E w \in Workers : ReceiverRun(w)
    \/ \E w \in Workers : Reap(w)
    \/ \E text \in ReceiverTexts : ReceiverDispatch("room1", text)
    \/ Return

SpecReceiver == InitReceiver /\ [][NextReceiver]_vars

\* C30 as claimed: a request without a body is answered 400, a request with
\* a body whose signature is not the HMAC of the body under the configured
\* secret is answered 403, and in both cases no thread is started and no
\* message is created
C30_RejectedRequests ==
    http.status # 0
       => /\ http.post.body = "none"
                => http.status = 400 /\ ~http.started
          /\ (http.post.body # "none" /\ webhook_secret
              /\ http.post.signature # "good")
                => http.status = 403 /\ ~http.started
          /\ ~http.started => sink = <<>>

----------------------------------------------------------------------------
(* commandhelpers.minargs *)

\* largest numargs and longest command line minargs is called with
MaxNumArgs == 3
MaxTokens == 3

\* commandhelpers.py lines 132-134
Minargs(numargs, commandline) == numargs <= Len(commandline) - 1

MinargsInputs ==
    {MinargsCall(n, c, FALSE, FALSE) :
        n \in 0..MaxNumArgs, c \in SeqsUpTo({W_ping, W_nope}, MaxTokens)}

InitMinargs ==
    /\ commands = [n \in {W_help} |-> MyHelp]
    /\ fallback_command = None
    /\ command_not_found_message = NotFoundLong
    /\ help_all_string = ""
    /\ logger = FALSE
    /\ declared = DeclaredDefault
    /\ last = Idle
    /\ help_all_calls = 0
    /\ webhook_secret = FALSE
    /\ workers = [w \in Workers |-> NoWorker]
    /\ sink = <<>>
    /\ http = [status |-> 0, body |-> "", started |-> FALSE, post |-> NoPost]
    /\ minargs_call \in MinargsInputs

\* minargs(numargs, commandline) is called with the arguments drawn
CallMinargs ==
    /\ ~minargs_call.done
    /\ minargs_call' = [minargs_call EXCEPT
                           !.done = TRUE,
                           !.result = Minargs(minargs_call.numargs,
                                              minargs_call.commandline)]
    /\ UNCHANGED <<commands, fallback_command, command_not_found_message,
                   help_all_string, logger, declared, last, help_all_calls,
                   webhook_secret, workers, sink, http>>

NextMinargs == CallMinargs

SpecMinargs == InitMinargs /\ [][NextMinargs]_vars

\* C31 as claimed: minargs returns true exactly when the command line has
\* more than numargs tokens after the command name
C31_MoreThanNumargs ==
    minargs_call.done
       => (minargs_call.result
             <=> Len(minargs_call.commandline) - 1 > minargs_call.numargs)

----------------------------------------------------------------------------
(* Properties of the binder, the receiver and the registry *)

\* C32: for a parameter that the handler declares, that is not one of the
\* five recognized names and that the keywords do not hold: with a logger
\* the logger is warned about it, it is passed as None and the handler's
\* body runs; without a logger it is not among the keywords passed
C32_UnrecognizedParameter ==
    (Executed /\ last.d.exec.target \in UserHandlers
     /\ last.d.exec.exc.type # "KeyError")
       => \A p \in declared[last.d.exec.target] \ (Recognized \cup DOMAIN CallContext) :
             IF logger
             THEN /\ p \in Warned(last.d.exec.target, CallContext)
                  /\ p \in DOMAIN last.d.exec.passed
                  /\ last.d.exec.passed[p] = VNone
                  /\ last.d.exec.ran
             ELSE /\ p \notin DOMAIN last.d.exec.passed
                  /\ Warned(last.d.exec.target, CallContext) = {}

\* with a logger, a dispatched handler that declares commandline and bogus
\* ran with bogus=None
C32_Witness ==
    /\ logger
    /\ last.op = "dispatch"
    /\ declared["h1"] = {"commandline", "bogus"}
    /\ last.d.exec.target = "h1"
    /\ last.d.exec.ran
    /\ last.d.exec.passed =
          [p \in {"commandline", "bogus"} |->
              IF p = "bogus" THEN VNone ELSE VList(<<W_ping>>)]

\* C33, one step: a request whose event has the bot itself as actor starts
\* no thread and creates no message, whatever its signature
C33_Step ==
    (http' # http /\ http'.post.body = "json" /\ http'.post.actor = "me")
       => /\ ~http'.started
          /\ workers' = workers
          /\ sink' = sink

C33_OwnMessagesIgnored == [][C33_Step]_vars

\* an event of the bot itself, correctly signed, was answered 204 without a
\* thread, while the thread of somebody else's event was running
C33_Witness ==
    /\ webhook_secret
    /\ http.post = Post("json", "good", "me", "room1", W_ping)
    /\ http.status = 204
    /\ ~http.started
    /\ workers["w1"].pc = "started"
    /\ workers["w2"].pc = "idle"

\* registrations whose names include the empty string
NameArgs ==
    { ArgStr(W_ping), ArgStr(<<>>), ArgList(<<>>),
      ArgList(<<NameStr(<<>>)>>),
      ArgList(<<NameStr(W_ping), NameStr(<<>>)>>),
      ArgList(<<NameStr(W_Ding), NameObj>>) }

NextNames ==
    \/ \E arg \in NameArgs, fb \in {"True", "False"}, h \in UserHandlers :
          Command(arg, fb, h)
    \/ RemoveHelp
    \/ Return

SpecNames == Init /\ [][NextNames]_vars

\* C34 as claimed: in every reachable state every name of the registry is a
\* non-empty string
C34_KeysNonEmpty == \A n \in DOMAIN commands : n # <<>>

\* C35: while the not-found message is the one that suggests 'help', the
\* name "help" is registered
C35_HelpSuggestedIsRegistered ==
    command_not_found_message = NotFoundLong => W_help \in DOMAIN commands

\* after registrations that replaced the built-in help, the message still
\* suggests help and "help" is registered
C35_Witness ==
    /\ command_not_found_message = NotFoundLong
    /\ W_help \in DOMAIN commands
    /\ commands[W_help] = "h1"
    /\ W_ping \in DOMAIN commands
    /\ fallback_command = "h2"

\* C36, one step: a registration with fallback=True that succeeds sets the
\* fallback to the function and leaves every entry of the registry as it
\* was, whatever names came with it
C36_Step ==
    (last'.op = "command" /\ last'.fb = "True" /\ last'.raised = None)
       => /\ commands' = commands
          /\ fallback_command' = last'.func

C36_FallbackLeavesRegistry == [][C36_Step]_vars

\* a fallback was registered with the names "ping" and "Ding" given, and
\* neither name is registered
C36_Witness ==
    /\ last.op = "command"
    /\ last.fb = "True"
    /\ last.arg = ArgList(<<NameStr(W_ping), NameStr(W_Ding)>>)
    /\ last.raised = None
    /\ fallback_command = "h1"
    /\ DOMAIN commands = {W_help}

\* core.py lines 233 and 311-316: a message whose command token is t finds a
\* registered handler
DispatchFinds(t) == Lower(t) \in DOMAIN commands

\* C37 as claimed: my_help, asked about a token t other than "all", answers
\* that it has no command with that name exactly when a message whose
\* command token is t would find no registered handler
C37_HelpAgreesWithDispatch ==
    (HelpForCommand(last) /\ last.d.exec.ran)
       => (HelpText(last) = "I don't have a command with the name \""
                               \o Str(last.d.commandline[2]) \o "\"."
             <=> ~DispatchFinds(last.d.commandline[2]))

\* C38 as claimed: when the handler raises, the dispatcher of a bot with a
\* logger and that of a bot without one create the same single message and
\* neither lets an exception out
C38_LoggerIndependent ==
    HandlerRaised
       => /\ Respond(Room, last.d.exec, ErrorResponseWith(TRUE, last.d.exec.exc))
                = Respond(Room, last.d.exec, ErrorResponseWith(FALSE, last.d.exec.exc))
          /\ Respond(Room, last.d.exec,
                     ErrorResponseWith(TRUE, last.d.exec.exc)).exc = NoExc
          /\ Len(Respond(Room, last.d.exec,
                         ErrorResponseWith(FALSE, last.d.exec.exc)).delivered) = 1

\* C39 as claimed: ReceiverResource.command_dispatcher, called directly or
\* run by the thread on_post starts, creates the messages that
\* SparkBot.command_dispatcher creates for the same request and handler
\* behaviour, and neither lets an exception out
C39_ReceiverDispatcherEquivalent ==
    /\ last.op = "receiver_dispatch"
          => /\ last.d.delivered = CommandDispatcher(last.req, last.beh).delivered
             /\ last.d.exc = NoExc
             /\ CommandDispatcher(last.req, last.beh).exc = NoExc
    /\ \A w \in Workers :
          (workers[w].target = ReceiverDispatcher /\ workers[w].pc \in {"done", "died"})
             => /\ workers[w].exc = NoExc
                /\ RepliesAsCalls(sink, w) =
                      CommandDispatcher(workers[w].req, workers[w].beh).delivered

====
